---- MODULE Spec2Model ----
(***************************************************************************)
(* Transaction and reconciliation engine of the POS application.           *)
(*                                                                         *)
(* The five persisted collections of services/storage.ts (products, bills, *)
(* customers, khata, ledger) are the state; every exported storage         *)
(* function and every page handler that writes to them is one action.      *)
(* Ids produced by crypto.randomUUID() are modelled as fresh values, dates *)
(* "YYYY-MM-DD" as day numbers (string order = numeric order), and the     *)
(* ISO timestamp of a bill by the day it starts with.  The id and          *)
(* description of a khata entry are never read by the code and are left    *)
(* out of the record.                                                      *)
(***************************************************************************)
EXTENDS Integers, Sequences, FiniteSets, TLC

\* ------------------------------------------------------------- bounds ----
\* Storage calls explored per behaviour of Spec and of SpecStock.
MaxCalls == 3
MaxStockCalls == 2
\* Bills and khata entries recorded while a day is being closed (SpecDay).
MaxDayBills == 1
MaxDayKhata == 1
\* Storage calls explored per behaviour of SpecCatalog.
MaxCatalogCalls == 3
\* Storage calls explored per behaviour of SpecSales.
MaxSalesCalls == 3
\* Handler runs explored per behaviour of SpecKhata.
MaxKhataCalls == 3
\* Units of one product put in the cart by addToCart per behaviour of SpecTax.
MaxTaxQty == 2
\* Storage calls explored per behaviour of SpecFaults.
MaxFaultCalls == 2
MaxStopCalls == 3
MaxImports == 2
MaxPreviewRows == 2
\* Bills recorded, and units of one product put in the cart by addToCart,
\* per behaviour of SpecBilling.
MaxBillingBills == 1
MaxCartQty == 3

\* -------------------------------------------------------- value sets ----
Undefined == "undefined"

ProductIds == {"p1", "p2"}
CustomerIds == {"c1", "c2"}
PaymentModes == {"CASH", "CREDIT", "UPI", "MIXED"}
Amounts == {1, 2}
Qtys == {1, 2}
StockValues == {0, 1, 2}

\* A bill id is <<n>>; a khata entry made without a bill carries no billId.
NoBillId == <<>>
\* An optional number (cashAmount?, upiAmount?) is <<>> or <<n>>.
Absent == <<>>

Customer(cid) == [id |-> cid, name |-> cid]
NoCustomer == [id |-> Undefined, name |-> Undefined]
Customers == {Customer(cid) : cid \in CustomerIds}

VARIABLES
  products,   \* KEYS.PRODUCTS : sequence of [id, stock]
  bills,      \* KEYS.BILLS    : sequence of Bill
  customers,  \* KEYS.CUSTOMERS: sequence of Customer
  khata,      \* KEYS.KHATA    : sequence of KhataEntry
  ledger,     \* KEYS.LEDGER   : sequence of LedgerEntry
  page,       \* the React state of the Ledger page, per browser session
  lastOp,     \* history: the storage call made by the last step
  calls,      \* history: number of calls made so far
  closedAs,   \* history: per date, the entry handleCloseDay last saved
  billing,    \* the React state of the Billing page
  inventory   \* the React state of the Inventory page

vars == <<products, bills, customers, khata, ledger, page, lastOp, calls, closedAs,
          billing, inventory>>
stores == <<products, bills, customers, khata, ledger>>

\* ----------------------------------------------------------- helpers ----
\* seq.findIndex(x => x.id === id): the first index with the id, 0 for -1.
IndexOfId(seq, id) ==
  IF \E i \in 1..Len(seq) : seq[i].id = id
    THEN CHOOSE i \in 1..Len(seq) :
           seq[i].id = id /\ \A j \in 1..(i - 1) : seq[j].id # id
    ELSE 0

\* saveCustomer: replace by id, or append.
SaveCustomerOp(custs, customer) ==
  LET index == IndexOfId(custs, customer.id)
  IN IF index > 0 THEN [custs EXCEPT ![index] = customer]
     ELSE Append(custs, customer)

\* One pass of the forEach bodies of saveBill / cancelBill: the stock of the
\* first product with the item's id moves by delta; no product, no change.
AdjustStock(prods, id, delta) ==
  LET pIndex == IndexOfId(prods, id)
  IN IF pIndex > 0
       THEN [prods EXCEPT ![pIndex].stock = prods[pIndex].stock + delta]
       ELSE prods

\* A sale whose loop ends at the first line without a product.
RECURSIVE SellItemsUntilMissing(_, _)
SellItemsUntilMissing(prods, items) ==
  IF items = <<>> \/ IndexOfId(prods, Head(items).id) = 0 THEN prods
  ELSE SellItemsUntilMissing(AdjustStock(prods, Head(items).id, 0 - Head(items).qty),
                             Tail(items))

RECURSIVE SellItems(_, _)
SellItems(prods, items) ==
  IF items = <<>> THEN prods
  ELSE SellItems(AdjustStock(prods, Head(items).id, 0 - Head(items).qty), Tail(items))

\* A restore that puts back the first line of the cart only.
RestoreFirstItemOnly(prods, items) ==
  IF items = <<>> THEN prods
  ELSE AdjustStock(prods, Head(items).id, Head(items).qty)

\* A restore that leaves the stock where the sale put it.
RestoreNothing(prods, items) == prods

RECURSIVE RestoreItems(_, _)
RestoreItems(prods, items) ==
  IF items = <<>> THEN prods
  ELSE RestoreItems(AdjustStock(prods, Head(items).id, Head(items).qty), Tail(items))

\* The condition of step 4 of saveBill.
IsCreditSale(bill) == bill.paymentMode = "CREDIT" \/ bill.status = "CREDIT"

\* The condition of step 3 of cancelBill.
ReversesKhata(bill) == bill.paymentMode = "CREDIT"

SaleDebit(bill, customer) ==
  [billId |-> bill.id, customerId |-> customer.id, amount |-> bill.grandTotal,
   type |-> "DEBIT", date |-> bill.date]

\* An early return that forgets the status check.
CancelReturnsOnlyIfAbsent(bs, billId) == IndexOfId(bs, billId) = 0

\* The early returns of cancelBill: bill absent, or already CANCELLED.
CancelReturnsEarly(bs, billId) ==
  LET billIndex == IndexOfId(bs, billId)
  IN billIndex = 0 \/ bs[billIndex].status = "CANCELLED"

\* calculateBalances (Khata page): a map from customer id to balance; a key
\* the map does not hold reads as Absent (undefined), a held one as <<n>>.
InitBalances(custs) ==
  [cid \in CustomerIds |->
     IF \E i \in 1..Len(custs) : custs[i].id = cid THEN <<0>> ELSE Absent]

\* A loop body that subtracts whatever the entry's type is.
BalanceStepAlwaysSubtracts(bal, k) ==
  LET cur == IF bal[k.customerId] = Absent \/ bal[k.customerId] = <<0>>
               THEN 0 ELSE bal[k.customerId][1]
  IN [bal EXCEPT ![k.customerId] = <<cur - k.amount>>]

\* The body of khata.forEach: !balances[id] is true of undefined and of 0.
BalanceStep(bal, k) ==
  LET cur == IF bal[k.customerId] = Absent \/ bal[k.customerId] = <<0>>
               THEN 0 ELSE bal[k.customerId][1]
  IN [bal EXCEPT ![k.customerId] =
        IF k.type = "DEBIT" THEN <<cur + k.amount>> ELSE <<cur - k.amount>>]

RECURSIVE FoldBalances(_, _)
FoldBalances(bal, entries) ==
  IF entries = <<>> THEN bal
  ELSE FoldBalances(BalanceStep(bal, Head(entries)), Tail(entries))

calculateBalances(entries, custs) == FoldBalances(InitBalances(custs), entries)

NoOp == [op |-> "init", billId |-> NoBillId, rejected |-> FALSE, stockBefore |-> <<>>]

\* ----------------------------------------------------------- actions ----
\* saveBill(bill, customer?)
SaveBill(bill, customer) ==
  /\ bills' = Append(bills, bill)
  /\ products' = SellItems(products, bill.items)
  /\ customers' = IF customer # NoCustomer
                    THEN SaveCustomerOp(customers, customer)
                    ELSE customers
  /\ khata' = IF IsCreditSale(bill) /\ customer # NoCustomer
                THEN Append(khata, SaleDebit(bill, customer))
                ELSE khata
  /\ lastOp' = [op |-> "saveBill", billId |-> bill.id,
                rejected |-> IsCreditSale(bill) /\ customer = NoCustomer,
                stockBefore |-> products]
  /\ UNCHANGED ledger

\* An order of writes that takes the stock down before the bill is stored.
WriteOrderStockFirst == <<"products", "bills", "customers", "khata">>

\* The order in which saveBill writes its keys.
WriteOrder == <<"bills", "products", "customers", "khata">>

\* The places between two writes of saveBill, by the number of writes done.
StopPoints == 1..(Len(WriteOrder) - 1)

\* key has been written when execution stops after the first stop writes
DoneBefore(stop, key) == \E i \in 1..stop : WriteOrder[i] = key

\* saveBill(bill, customer?) when execution ends between two of its writes
\* (the tab is closed, the process dies): the writes made stay, the rest
\* never happen.
SaveBillStopped(bill, customer, stop) ==
  /\ bills' = IF DoneBefore(stop, "bills") THEN Append(bills, bill) ELSE bills
  /\ products' = IF DoneBefore(stop, "products")
                   THEN SellItems(products, bill.items)
                   ELSE products
  /\ customers' = IF DoneBefore(stop, "customers") /\ customer # NoCustomer
                    THEN SaveCustomerOp(customers, customer)
                    ELSE customers
  /\ khata' = IF DoneBefore(stop, "khata") /\ IsCreditSale(bill) /\ customer # NoCustomer
                THEN Append(khata, SaleDebit(bill, customer))
                ELSE khata
  /\ lastOp' = [op |-> "saveBillStopped", billId |-> bill.id, rejected |-> FALSE,
                stockBefore |-> products, stop |-> stop]
  /\ UNCHANGED ledger

\* A cancellation that writes a status other than CANCELLED.
MarkPartial(bs, billIndex) == [bs EXCEPT ![billIndex].status = "PARTIAL"]

\* A cancellation that takes the bill out of the list.
RemoveBill(bs, billIndex) ==
  SubSeq(bs, 1, billIndex - 1) \o SubSeq(bs, billIndex + 1, Len(bs))

\* bill.status = 'CANCELLED'; bills[billIndex] = bill
MarkCancelled(bs, billIndex) == [bs EXCEPT ![billIndex].status = "CANCELLED"]

\* A reversal that also takes the payments out of the khata.
removeBillEntriesAndPayments(entries, billId) ==
  SelectSeq(entries, LAMBDA k : k.billId # billId /\ k.type # "CREDIT")

\* khata.filter(k => k.billId !== billId)
removeBillEntries(entries, billId) ==
  SelectSeq(entries, LAMBDA k : k.billId # billId)

\* cancelBill(billId)
CancelBill(billId) ==
  LET billIndex == IndexOfId(bills, billId)
      bill == bills[billIndex]
  IN /\ IF CancelReturnsEarly(bills, billId)
          THEN UNCHANGED <<bills, products, khata>>
          ELSE /\ bills' = MarkCancelled(bills, billIndex)
               /\ products' = RestoreItems(products, bill.items)
               /\ khata' = IF ReversesKhata(bill)
                             THEN removeBillEntries(khata, billId)
                             ELSE khata
     /\ lastOp' = [op |-> "cancelBill", billId |-> billId, rejected |-> FALSE,
                   stockBefore |-> products]
     /\ UNCHANGED <<customers, ledger>>

\* A save that always pushes.
saveProductPushOnly(prods, product) == Append(prods, product)

\* what KEYS.PRODUCTS holds after saveProduct(product): replace by id, or push
saveProduct(prods, product) ==
  LET index == IndexOfId(prods, product.id)
  IN IF index > 0 THEN [prods EXCEPT ![index] = product]
     ELSE Append(prods, product)

\* saveProduct(product)
SaveProduct(product) ==
  /\ products' = saveProduct(products, product)
  /\ lastOp' = [op |-> "saveProduct", billId |-> NoBillId, rejected |-> FALSE,
                stockBefore |-> products]
  /\ UNCHANGED <<bills, customers, khata, ledger>>

\* deleteProduct(id)
DeleteProduct(id) ==
  /\ products' = SelectSeq(products, LAMBDA p : p.id # id)
  /\ lastOp' = [op |-> "deleteProduct", billId |-> NoBillId, rejected |-> FALSE,
                stockBefore |-> products]
  /\ UNCHANGED <<bills, customers, khata, ledger>>

\* addKhataPayment(customerId, amount, date)
AddKhataPayment(customerId, amount, date) ==
  /\ khata' = Append(khata, [billId |-> NoBillId, customerId |-> customerId,
                             amount |-> amount, type |-> "CREDIT", date |-> date])
  /\ lastOp' = [op |-> "addKhataPayment", billId |-> NoBillId, rejected |-> FALSE,
                stockBefore |-> products]
  /\ UNCHANGED <<products, bills, customers, ledger>>

\* addManualKhataDebit(customer, amount, date, description)
AddManualKhataDebit(customer, amount, date) ==
  /\ customers' = SaveCustomerOp(customers, customer)
  /\ khata' = Append(khata, [billId |-> NoBillId, customerId |-> customer.id,
                             amount |-> amount, type |-> "DEBIT", date |-> date])
  /\ lastOp' = [op |-> "addManualKhataDebit", billId |-> NoBillId, rejected |-> FALSE,
                stockBefore |-> products]
  /\ UNCHANGED <<products, bills, ledger>>

\* ------------------------------------------- reads and writes that fail ----
\* The reads and writes of localStorage one call makes, by key.
ReadPoints == {"readBills", "readProducts", "readCustomers", "readKhata"}
WritePoints == {"writeBills", "writeProducts", "writeCustomers", "writeKhata"}
NoFault == "none"

\* A read that gives the stored value whether or not getItem has thrown.
getIgnoresFailure(stored, failed, defaultVal) == stored

\* get(key, defaultVal): the default when getItem or JSON.parse throws.
get(stored, failed, defaultVal) == IF failed THEN defaultVal ELSE stored

\* set(key, val): what the key holds afterwards; nothing is written when
\* setItem throws.
set(stored, val, failed) == IF failed THEN stored ELSE val

\* saveBill(bill, customer?) with the read or write named by fault failing.
SaveBillWithFault(bill, customer, fault) ==
  LET readBills == get(bills, fault = "readBills", <<>>)
      readProducts == get(products, fault = "readProducts", <<>>)
      readCustomers == get(customers, fault = "readCustomers", <<>>)
      readKhata == get(khata, fault = "readKhata", <<>>)
  IN /\ bills' = set(bills, Append(readBills, bill), fault = "writeBills")
     /\ products' = set(products, SellItems(readProducts, bill.items),
                        fault = "writeProducts")
     /\ customers' = IF customer # NoCustomer
                       THEN set(customers, SaveCustomerOp(readCustomers, customer),
                                fault = "writeCustomers")
                       ELSE customers
     /\ khata' = IF IsCreditSale(bill) /\ customer # NoCustomer
                   THEN set(khata, Append(readKhata, SaleDebit(bill, customer)),
                            fault = "writeKhata")
                   ELSE khata
     /\ lastOp' = [op |-> "saveBill", billId |-> bill.id,
                   rejected |-> IsCreditSale(bill) /\ customer = NoCustomer,
                   stockBefore |-> products, fault |-> fault, bill |-> bill,
                   customer |-> customer]
     /\ UNCHANGED ledger

\* cancelBill(billId) with the read or write named by fault failing.
CancelBillWithFault(billId, fault) ==
  LET readBills == get(bills, fault = "readBills", <<>>)
      readProducts == get(products, fault = "readProducts", <<>>)
      readKhata == get(khata, fault = "readKhata", <<>>)
      billIndex == IndexOfId(readBills, billId)
      bill == readBills[billIndex]
  IN /\ IF CancelReturnsEarly(readBills, billId)
          THEN UNCHANGED <<bills, products, khata>>
          ELSE /\ bills' = set(bills, MarkCancelled(readBills, billIndex),
                               fault = "writeBills")
               /\ products' = set(products, RestoreItems(readProducts, bill.items),
                                  fault = "writeProducts")
               /\ khata' = IF ReversesKhata(bill)
                             THEN set(khata,
                                      SelectSeq(readKhata, LAMBDA k : k.billId # billId),
                                      fault = "writeKhata")
                             ELSE khata
     /\ lastOp' = [op |-> "cancelBill", billId |-> billId, rejected |-> FALSE,
                   stockBefore |-> products, fault |-> fault]
     /\ UNCHANGED <<customers, ledger>>

\* addKhataPayment(customerId, amount, date) with the read or write named by
\* fault failing.
AddKhataPaymentWithFault(customerId, amount, date, fault) ==
  /\ khata' = set(khata,
                  Append(get(khata, fault = "readKhata", <<>>),
                         [billId |-> NoBillId, customerId |-> customerId,
                          amount |-> amount, type |-> "CREDIT", date |-> date]),
                  fault = "writeKhata")
  /\ lastOp' = [op |-> "addKhataPayment", billId |-> NoBillId, rejected |-> FALSE,
                stockBefore |-> products, fault |-> fault, amount |-> amount,
                customerId |-> customerId]
  /\ UNCHANGED <<products, bills, customers, ledger>>

\* ------------------------------------------------------------ ledger ----
Dates == {1, 2, 3}
Sessions == {1, 2}

\* An input string of the form: '' is Blank, the text of a number n is <<n>>.
Blank == <<>>

\* formatInput: 0 shows as the empty string.
formatInput(num) == IF num = 0 THEN Blank ELSE <<num>>

\* parseNum: parseFloat, with NaN (the empty string) read as 0.
parseNum(str) == IF str = Blank THEN 0 ELSE str[1]

\* ledger.find(l => l.date === date): the index of the first such row, or 0.
IndexOfDate(ldg, date) ==
  IF \E i \in 1..Len(ldg) : ldg[i].date = date
    THEN CHOOSE i \in 1..Len(ldg) :
           ldg[i].date = date /\ \A j \in 1..(i - 1) : ldg[j].date # date
    ELSE 0

\* sorted.find(l => l.date < date): the index of the first such row, or 0.
IndexBefore(sorted, date) ==
  IF \E i \in 1..Len(sorted) : sorted[i].date < date
    THEN CHOOSE i \in 1..Len(sorted) :
           sorted[i].date < date /\ \A j \in 1..(i - 1) : ~(sorted[j].date < date)
    ELSE 0

\* ledger.sort with the comparator of another order: oldest first.
RECURSIVE SortByDateAsc(_)
SortByDateAsc(seq) ==
  IF seq = <<>> THEN <<>>
  ELSE LET rest == SortByDateAsc(SubSeq(seq, 1, Len(seq) - 1))
           e == seq[Len(seq)]
           k == Cardinality({i \in 1..Len(rest) : rest[i].date <= e.date})
       IN SubSeq(rest, 1, k) \o <<e>> \o SubSeq(rest, k + 1, Len(rest))

\* ledger.sort((a, b) => time(b.date) - time(a.date)): newest first, stable.
RECURSIVE SortByDateDesc(_)
SortByDateDesc(seq) ==
  IF seq = <<>> THEN <<>>
  ELSE LET rest == SortByDateDesc(SubSeq(seq, 1, Len(seq) - 1))
           e == seq[Len(seq)]
           k == Cardinality({i \in 1..Len(rest) : rest[i].date >= e.date})
       IN SubSeq(rest, 1, k) \o <<e>> \o SubSeq(rest, k + 1, Len(rest))

\* The row getLedgerEntry initializes for a date that has none.
DerivedEntry(date, openingBalance) ==
  [date |-> date, openingBalance |-> openingBalance, grossSales |-> 0,
   onlineSales |-> 0, creditSales |-> 0, expenses |-> 0, expectedCash |-> 0,
   actualCash |-> 0, difference |-> 0, depositedToBank |-> 0,
   closingBalance |-> 0, isClosed |-> FALSE, isAutoMode |-> TRUE, notes |-> ""]

\* A getLedgerEntry that initializes a row whether or not one is stored.
getLedgerEntryAlwaysDerives(ldg, date) ==
  LET sorted == SortByDateDesc(ldg)
      last == IndexBefore(sorted, date)
  IN DerivedEntry(date, IF last > 0 THEN sorted[last].closingBalance ELSE 0)

\* getLedgerEntry(date)
getLedgerEntry(ldg, date) ==
  LET existing == IndexOfDate(ldg, date)
      sorted == SortByDateDesc(ldg)
      last == IndexBefore(sorted, date)
  IN IF existing > 0 THEN ldg[existing]
     ELSE DerivedEntry(date, IF last > 0 THEN sorted[last].closingBalance ELSE 0)

\* A saveLedgerDay that pushes without filtering the date out first.
saveLedgerDayPushOnly(ldg, entry) == Append(ldg, entry)

\* A read that writes its sorted array back when it has no row to return.
ledgerAfterReadSortedBack(ldg, date) ==
  IF IndexOfDate(ldg, date) > 0 THEN ldg ELSE SortByDateDesc(ldg)

\* What KEYS.LEDGER holds after getLedgerEntry(date): the array it sorts in
\* place is the one JSON.parse has just built, and set is never called.
ledgerAfterRead(ldg, date) == ldg

\* saveLedgerDay(entry)
saveLedgerDay(ldg, entry) ==
  Append(SelectSeq(ldg, LAMBDA l : l.date # entry.date), entry)

\* calculateDailyStats(date)
RECURSIVE SumStats(_, _)
SumStats(bs, acc) ==
  IF bs = <<>> THEN acc
  ELSE LET b == Head(bs)
       IN SumStats(Tail(bs),
            [grossSales |-> acc.grossSales + b.grandTotal,
             onlineSales |-> acc.onlineSales
                + (IF b.paymentMode = "UPI" THEN b.grandTotal
                   ELSE IF b.paymentMode = "MIXED"
                     THEN (IF b.upiAmount = Absent THEN 0 ELSE b.upiAmount[1])
                   ELSE 0),
             creditSales |-> acc.creditSales
                + (IF b.paymentMode = "CREDIT" THEN b.grandTotal ELSE 0)])

\* Daily stats that count the cancelled bills of the day as well.
calculateDailyStatsOfAllBills(bs, date) ==
  SumStats(SelectSeq(bs, LAMBDA b : b.date = date),
           [grossSales |-> 0, onlineSales |-> 0, creditSales |-> 0])

calculateDailyStats(bs, date) ==
  SumStats(SelectSeq(bs, LAMBDA b : b.date = date /\ b.status # "CANCELLED"),
           [grossSales |-> 0, onlineSales |-> 0, creditSales |-> 0])

\* The Ledger component before its first effect has run.
NoEntry == <<>>
InitialPage ==
  [mounted |-> FALSE, selectedDate |-> 1, todayLedger |-> NoEntry,
   isAutoMode |-> TRUE,
   autoData |-> [openingBalance |-> 0, grossSales |-> 0, onlineSales |-> 0,
                 creditSales |-> 0],
   inputs |-> [openingBalance |-> Blank, grossSales |-> Blank,
               onlineSales |-> Blank, creditSales |-> Blank, expenses |-> Blank,
               actualCash |-> Blank, bankDeposit |-> Blank, notes |-> ""]]

\* fetchData(date), with selectedDate already set to date.
fetchData(pg, ldg, bs, date) ==
  LET base == getLedgerEntry(ldg, date)
      stats == calculateDailyStats(bs, date)
  IN IF base.isClosed
       THEN [pg EXCEPT !.mounted = TRUE, !.selectedDate = date,
                       !.todayLedger = <<base>>]
       ELSE [mounted |-> TRUE, selectedDate |-> date, todayLedger |-> <<base>>,
             isAutoMode |-> TRUE,
             autoData |-> [openingBalance |-> base.openingBalance,
                           grossSales |-> stats.grossSales,
                           onlineSales |-> stats.onlineSales,
                           creditSales |-> stats.creditSales],
             inputs |-> [openingBalance |-> formatInput(base.openingBalance),
                         grossSales |-> formatInput(stats.grossSales),
                         onlineSales |-> formatInput(stats.onlineSales),
                         creditSales |-> formatInput(stats.creditSales),
                         expenses |-> formatInput(base.expenses),
                         actualCash |-> formatInput(base.actualCash),
                         bankDeposit |-> formatInput(base.depositedToBank),
                         notes |-> base.notes]]

\* The auto-refresh effect, run when isAutoMode, todayLedger or selectedDate
\* has changed.
autoRefresh(pg, bs) ==
  IF pg.isAutoMode /\ pg.todayLedger # NoEntry /\ ~pg.todayLedger[1].isClosed
    THEN LET stats == calculateDailyStats(bs, pg.selectedDate)
         IN [pg EXCEPT !.autoData.grossSales = stats.grossSales,
                       !.autoData.onlineSales = stats.onlineSales,
                       !.autoData.creditSales = stats.creditSales,
                       !.inputs.grossSales = formatInput(stats.grossSales),
                       !.inputs.onlineSales = formatInput(stats.onlineSales),
                       !.inputs.creditSales = formatInput(stats.creditSales)]
    ELSE pg

\* A closing entry whose difference is taken the other way round.
closingEntryShortfall(pg) ==
  LET currentOpening == parseNum(pg.inputs.openingBalance)
      currentGross == parseNum(pg.inputs.grossSales)
      currentOnline == parseNum(pg.inputs.onlineSales)
      currentCredit == parseNum(pg.inputs.creditSales)
      currentExpenses == parseNum(pg.inputs.expenses)
      totalDeductions == currentOnline + currentCredit + currentExpenses
      expectedCash == (currentOpening + currentGross) - totalDeductions
      actualCashVal == parseNum(pg.inputs.actualCash)
      bankDepositVal == parseNum(pg.inputs.bankDeposit)
  IN [date |-> pg.selectedDate, openingBalance |-> currentOpening,
      grossSales |-> currentGross, onlineSales |-> currentOnline,
      creditSales |-> currentCredit, expenses |-> currentExpenses,
      expectedCash |-> expectedCash, actualCash |-> actualCashVal,
      difference |-> expectedCash - actualCashVal,
      depositedToBank |-> bankDepositVal,
      closingBalance |-> actualCashVal - bankDepositVal,
      isClosed |-> TRUE, isAutoMode |-> pg.isAutoMode, notes |-> pg.inputs.notes]

\* The entry handleCloseDay builds from the form.
closingEntry(pg) ==
  LET currentOpening == parseNum(pg.inputs.openingBalance)
      currentGross == parseNum(pg.inputs.grossSales)
      currentOnline == parseNum(pg.inputs.onlineSales)
      currentCredit == parseNum(pg.inputs.creditSales)
      currentExpenses == parseNum(pg.inputs.expenses)
      totalDeductions == currentOnline + currentCredit + currentExpenses
      expectedCash == (currentOpening + currentGross) - totalDeductions
      actualCashVal == parseNum(pg.inputs.actualCash)
      bankDepositVal == parseNum(pg.inputs.bankDeposit)
  IN [date |-> pg.selectedDate, openingBalance |-> currentOpening,
      grossSales |-> currentGross, onlineSales |-> currentOnline,
      creditSales |-> currentCredit, expenses |-> currentExpenses,
      expectedCash |-> expectedCash, actualCash |-> actualCashVal,
      difference |-> actualCashVal - expectedCash,
      depositedToBank |-> bankDepositVal,
      closingBalance |-> actualCashVal - bankDepositVal,
      isClosed |-> TRUE, isAutoMode |-> pg.isAutoMode, notes |-> pg.inputs.notes]

\* A validation that lets every deposit through.
DepositAlwaysAccepted(pg) == FALSE

\* handleCloseDay's validation: bankDepositVal > actualCashVal.
DepositExceedsCash(pg) ==
  parseNum(pg.inputs.bankDeposit) > parseNum(pg.inputs.actualCash)

\* The reconciliation form, with its close button, is on screen.
FormShown(pg) ==
  pg.mounted /\ pg.todayLedger # NoEntry /\ ~pg.todayLedger[1].isClosed

\* Fields the form disables in Auto mode.
AutoFields == {"openingBalance", "grossSales", "onlineSales", "creditSales"}

\* Sidebar to the Ledger tab: the component mounts and its effects run, with
\* the clock's date d selected.
OpenLedger(s, d) ==
  /\ ~page[s].mounted
  /\ page' = [page EXCEPT
                ![s] = autoRefresh(fetchData(InitialPage, ledger, bills, d), bills)]
  /\ lastOp' = [op |-> "openLedger", billId |-> NoBillId, rejected |-> FALSE,
                stockBefore |-> products]
  /\ ledger' = ledgerAfterRead(ledger, d)
  /\ UNCHANGED <<products, bills, customers, khata, calls, closedAs, billing, inventory>>

\* The date picker (or a history card): setSelectedDate, then the effects.
SelectDate(s, d) ==
  /\ page[s].mounted
  /\ d # page[s].selectedDate
  /\ page' = [page EXCEPT
                ![s] = autoRefresh(fetchData(page[s], ledger, bills, d), bills)]
  /\ lastOp' = [op |-> "selectDate", billId |-> NoBillId, rejected |-> FALSE,
                stockBefore |-> products]
  /\ ledger' = ledgerAfterRead(ledger, d)
  /\ UNCHANGED <<products, bills, customers, khata, calls, closedAs, billing, inventory>>

\* handleInputChange(field, value) on an enabled input of the form.
HandleInputChange(s, field, value) ==
  /\ FormShown(page[s])
  /\ field \in AutoFields => ~page[s].isAutoMode
  /\ page' = [page EXCEPT ![s].inputs[field] = value]
  /\ lastOp' = [op |-> "handleInputChange", billId |-> NoBillId, rejected |-> FALSE,
                stockBefore |-> products]
  /\ UNCHANGED <<stores, calls, closedAs, billing, inventory>>

\* A mode switch that leaves the inputs as they are in both directions.
handleModeSwitchKeepsEdits(pg, mode) == [pg EXCEPT !.isAutoMode = (mode = "auto")]

\* handleModeSwitch(mode): the state it sets.
handleModeSwitch(pg, mode) ==
  IF mode = "auto"
    THEN [pg EXCEPT
            !.isAutoMode = TRUE,
            !.inputs.openingBalance = formatInput(pg.autoData.openingBalance),
            !.inputs.grossSales = formatInput(pg.autoData.grossSales),
            !.inputs.onlineSales = formatInput(pg.autoData.onlineSales),
            !.inputs.creditSales = formatInput(pg.autoData.creditSales)]
    ELSE [pg EXCEPT !.isAutoMode = FALSE]

\* handleModeSwitch(mode) from the Auto / Manual buttons of the form; the
\* auto-refresh effect follows when isAutoMode has changed.
HandleModeSwitch(s, mode) ==
  LET pg == page[s]
      switched == handleModeSwitch(pg, mode)
  IN /\ FormShown(pg)
     /\ page' = [page EXCEPT
                   ![s] = IF switched.isAutoMode # pg.isAutoMode
                            THEN autoRefresh(switched, bills)
                            ELSE switched]
     /\ lastOp' = [op |-> "handleModeSwitch", billId |-> NoBillId,
                   rejected |-> FALSE, stockBefore |-> products,
                   wasAuto |-> pg.isAutoMode]
     /\ UNCHANGED <<stores, calls, closedAs, billing, inventory>>

\* handleCloseDay, from the button shown while actualCash is not empty.
HandleCloseDay(s) ==
  LET pg == page[s]
      entry == closingEntry(pg)
  IN /\ FormShown(pg)
     /\ pg.inputs.actualCash # Blank
     /\ IF DepositExceedsCash(pg)
          THEN /\ UNCHANGED <<ledger, page, closedAs>>
               /\ lastOp' = [op |-> "handleCloseDay", billId |-> NoBillId,
                             rejected |-> TRUE, stockBefore |-> products]
          ELSE /\ ledger' = saveLedgerDay(ledger, entry)
               /\ page' = [page EXCEPT
                             ![s] = autoRefresh(
                                      fetchData(pg, ledger', bills, pg.selectedDate),
                                      bills)]
               /\ closedAs' = [closedAs EXCEPT ![pg.selectedDate] = <<entry>>]
               /\ lastOp' = [op |-> "handleCloseDay", billId |-> NoBillId,
                             rejected |-> FALSE, stockBefore |-> products]
     /\ UNCHANGED <<products, bills, customers, khata, calls, billing, inventory>>

\* ------------------------------------------------------ billing page ----
\* The Billing component before its mount effect has run.
InitialBilling ==
  [mounted |-> FALSE, products |-> <<>>, cart |-> <<>>, paymentMode |-> "CASH",
   selectedCustomer |-> NoCustomer, cashAmount |-> Blank,
   showConfirmation |-> FALSE]

\* crypto.randomUUID(): an id no stored bill has.
FreshBillId == <<Len(bills) + 1>>
\* the ids cancelBill is called with: those given out so far and one never given
KnownBillIds == {<<n>> : n \in 1..(Len(bills) + 1)}

\* A product with the fields the billing page reads.
Product(id, stock, price) ==
  [id |-> id, stock |-> stock, sellingPrice |-> price, gstPercent |-> 0,
   gstIncluded |-> FALSE]

\* A product with a GST rate, included in its price or not.
TaxedProduct(id, stock, price, rate, included) ==
  [id |-> id, stock |-> stock, sellingPrice |-> price, gstPercent |-> rate,
   gstIncluded |-> included]

\* { ...product, qty: 1, discount: 0 }: the line addToCart pushes.
CartLine(product) ==
  [id |-> product.id, stock |-> product.stock,
   sellingPrice |-> product.sellingPrice, gstPercent |-> product.gstPercent,
   gstIncluded |-> product.gstIncluded, qty |-> 1, discount |-> 0]

\* Taxable values and taxes are fractions of a rupee; they are held as whole
\* numbers of 1/TaxUnit rupee, a unit in which the division by 1 + rate/100
\* and the product with rate/100 come out whole for every rate of GST_SLABS
\* (100 + rate divides 100 * TaxUnit, and 100 divides TaxUnit).
TaxUnit == 128 * 3 * 25 * 7 * 59
GstSlabs == {0, 5, 12, 18, 28}

\* Math.round of a value held in 1/TaxUnit rupee: floor(x + 0.5), in rupees.
MathRound(x) == (x + (TaxUnit \div 2)) \div TaxUnit

\* The taxable value and the tax of one cart line, in 1/TaxUnit rupee; this
\* one adds the tax on top of the price whether it includes it or not.
lineAmountsTaxOnTop(item) ==
  LET totalValue == item.sellingPrice * item.qty * TaxUnit
  IN [itemTaxable |-> totalValue,
      itemTax |-> (totalValue \div 100) * item.gstPercent]

\* The taxable value and the tax of one cart line, in 1/TaxUnit rupee.
lineAmounts(item) ==
  LET totalValue == item.sellingPrice * item.qty * TaxUnit
      itemTaxable == IF item.gstIncluded
                       THEN (totalValue \div (100 + item.gstPercent)) * 100
                       ELSE totalValue
  IN [itemTaxable |-> itemTaxable,
      itemTax |-> IF item.gstIncluded
                    THEN totalValue - itemTaxable
                    ELSE (itemTaxable \div 100) * item.gstPercent]

\* calculateTotals(): subtotal and totalGst in 1/TaxUnit rupee, totalDiscount
\* and grandTotal in rupees.
RECURSIVE SumTotals(_, _)
SumTotals(cart, acc) ==
  IF cart = <<>> THEN acc
  ELSE LET item == Head(cart)
           line == lineAmounts(item)
       IN SumTotals(Tail(cart),
            [subtotal |-> acc.subtotal + line.itemTaxable,
             totalGst |-> acc.totalGst + line.itemTax,
             totalDiscount |-> acc.totalDiscount + item.discount])

calculateTotals(cart) ==
  LET sums == SumTotals(cart, [subtotal |-> 0, totalGst |-> 0, totalDiscount |-> 0])
  IN [subtotal |-> sums.subtotal, totalGst |-> sums.totalGst,
      totalDiscount |-> sums.totalDiscount,
      grandTotal |-> MathRound((sums.subtotal + sums.totalGst)
                               - sums.totalDiscount * TaxUnit)]

\* parseFloat(cashAmount) || 0
parseCash(str) == IF str = Blank THEN 0 ELSE str[1]

\* The Bill finalizeBill builds from the page, with the id the next
\* randomUUID() gives and the clock's date.
finalizeBillRecord(bl, id, date) ==
  LET totals == calculateTotals(bl.cart)
      mixed == (bl.paymentMode = "MIXED")
  IN [id |-> id, date |-> date, items |-> bl.cart,
      subtotal |-> totals.subtotal, totalGst |-> totals.totalGst,
      totalDiscount |-> totals.totalDiscount, grandTotal |-> totals.grandTotal,
      paymentMode |-> bl.paymentMode, customerId |-> bl.selectedCustomer.id,
      cashAmount |-> IF mixed THEN <<parseCash(bl.cashAmount)>> ELSE Absent,
      upiAmount |-> IF mixed
                      THEN <<totals.grandTotal - parseCash(bl.cashAmount)>>
                      ELSE Absent,
      status |-> IF bl.paymentMode = "CREDIT" THEN "CREDIT" ELSE "PAID"]

\* addToCart(product)
addToCart(cart, product) ==
  IF \E k \in 1..Len(cart) : cart[k].id = product.id
    THEN [k \in 1..Len(cart) |->
            IF cart[k].id = product.id
              THEN [cart[k] EXCEPT !.qty = cart[k].qty + 1]
              ELSE cart[k]]
    ELSE Append(cart, CartLine(product))

\* updateQty(id, delta)
updateQty(cart, id, delta) ==
  [k \in 1..Len(cart) |->
     IF cart[k].id = id
       THEN LET sum == cart[k].qty + delta
                newQty == IF sum > 1 THEN sum ELSE 1
            IN IF newQty > cart[k].stock THEN cart[k]
               ELSE [cart[k] EXCEPT !.qty = newQty]
       ELSE cart[k]]

\* removeItem(id)
removeItem(cart, id) == SelectSeq(cart, LAMBDA item : item.id # id)

\* What a handler of a page leaves in lastOp.
PageOp(name) ==
  [op |-> name, billId |-> NoBillId, rejected |-> FALSE, stockBefore |-> products]

\* The cart and the payment panel can be reached: the page is mounted and
\* the confirmation modal does not cover it.
BillingShown == billing.mounted /\ ~billing.showConfirmation

\* Sidebar to the Billing tab: the component mounts and loads the products.
OpenBilling ==
  /\ ~billing.mounted
  /\ billing' = [InitialBilling EXCEPT !.mounted = TRUE, !.products = products]
  /\ lastOp' = PageOp("openBilling")
  /\ UNCHANGED <<stores, page, calls, closedAs, inventory>>

\* Sidebar to another tab: the component unmounts and its state is gone.
LeaveBilling ==
  /\ billing.mounted
  /\ billing' = InitialBilling
  /\ lastOp' = PageOp("leaveBilling")
  /\ UNCHANGED <<stores, page, calls, closedAs, inventory>>

\* A click (or Enter) on a search result, a product the page has loaded.
AddToCart(product) ==
  /\ BillingShown
  /\ billing' = [billing EXCEPT !.cart = addToCart(billing.cart, product)]
  /\ lastOp' = PageOp("addToCart")
  /\ UNCHANGED <<stores, page, calls, closedAs, inventory>>

\* The minus and plus buttons of a cart line.
UpdateQty(id, delta) ==
  /\ BillingShown
  /\ \E k \in 1..Len(billing.cart) : billing.cart[k].id = id
  /\ billing' = [billing EXCEPT !.cart = updateQty(billing.cart, id, delta)]
  /\ lastOp' = PageOp("updateQty")
  /\ UNCHANGED <<stores, page, calls, closedAs, inventory>>

\* The remove button of a cart line.
RemoveItem(id) ==
  /\ BillingShown
  /\ \E k \in 1..Len(billing.cart) : billing.cart[k].id = id
  /\ billing' = [billing EXCEPT !.cart = removeItem(billing.cart, id)]
  /\ lastOp' = PageOp("removeItem")
  /\ UNCHANGED <<stores, page, calls, closedAs, inventory>>

\* The four payment mode buttons.
SetPaymentMode(mode) ==
  /\ BillingShown
  /\ billing' = [billing EXCEPT !.paymentMode = mode]
  /\ lastOp' = PageOp("setPaymentMode")
  /\ UNCHANGED <<stores, page, calls, closedAs, inventory>>

\* The Cash Received input, rendered while the mode is MIXED.
SetCashAmount(value) ==
  /\ BillingShown
  /\ billing.paymentMode = "MIXED"
  /\ billing' = [billing EXCEPT !.cashAmount = value]
  /\ lastOp' = PageOp("setCashAmount")
  /\ UNCHANGED <<stores, page, calls, closedAs, inventory>>

\* A customer picked from the list or entered in the form, or deselected.
SetSelectedCustomer(customer) ==
  /\ BillingShown
  /\ billing' = [billing EXCEPT !.selectedCustomer = customer]
  /\ lastOp' = PageOp("setSelectedCustomer")
  /\ UNCHANGED <<stores, page, calls, closedAs, inventory>>

\* handleCheckout's validations: an alert and nothing else when one fails.
CheckoutRefused(bl) ==
  \/ Len(bl.cart) = 0
  \/ bl.paymentMode = "CREDIT" /\ bl.selectedCustomer = NoCustomer
  \/ /\ bl.paymentMode = "MIXED"
     /\ parseCash(bl.cashAmount) > calculateTotals(bl.cart).grandTotal

\* handleCheckout
HandleCheckout ==
  /\ BillingShown
  /\ billing' = IF CheckoutRefused(billing) THEN billing
                ELSE [billing EXCEPT !.showConfirmation = TRUE]
  /\ lastOp' = [PageOp("handleCheckout") EXCEPT !.rejected = CheckoutRefused(billing)]
  /\ UNCHANGED <<stores, page, calls, closedAs, inventory>>

\* The Cancel button of the confirmation modal.
DismissConfirmation ==
  /\ billing.mounted /\ billing.showConfirmation
  /\ billing' = [billing EXCEPT !.showConfirmation = FALSE]
  /\ lastOp' = PageOp("dismissConfirmation")
  /\ UNCHANGED <<stores, page, calls, closedAs, inventory>>

\* finalizeBill, from the Confirm button of the modal, on the day date; the
\* page is reset after saveBill has returned.
FinalizeBill(date) ==
  LET customer == billing.selectedCustomer
      bill == finalizeBillRecord(billing, FreshBillId, date)
  IN /\ billing.mounted /\ billing.showConfirmation
     /\ SaveBill(bill, customer)
     /\ billing' = IF IsCreditSale(bill) /\ customer = NoCustomer
                     THEN billing
                     ELSE [billing EXCEPT !.cart = <<>>, !.paymentMode = "CASH",
                                          !.selectedCustomer = NoCustomer,
                                          !.cashAmount = Blank,
                                          !.showConfirmation = FALSE]
     /\ UNCHANGED <<page, calls, closedAs, inventory>>

\* -------------------------------------------------------- khata page ----
\* parseFloat of the text of a number.
parseAmount(str) == str[1]

\* handleReceivePayment, with the customer of the open modal and the text of
\* its amount input.
HandleReceivePayment(selectedCustIdForPay, payAmount, date) ==
  IF payAmount = Blank
    THEN /\ lastOp' = [PageOp("handleReceivePayment") EXCEPT !.rejected = TRUE]
         /\ UNCHANGED stores
    ELSE AddKhataPayment(selectedCustIdForPay, parseAmount(payAmount), date)

\* handleAddManualCredit, with the customer the form describes and the text
\* of its amount input.
HandleAddManualCredit(customer, amount, date) ==
  IF amount = Blank
    THEN /\ lastOp' = [PageOp("handleAddManualCredit") EXCEPT !.rejected = TRUE]
         /\ UNCHANGED stores
    ELSE AddManualKhataDebit(customer, parseAmount(amount), date)

\* ---------------------------------------------------- inventory page ----
\* The Inventory page: the product list it loaded, the rows of the import
\* preview and the statistics of the last import.  A product here carries a
\* name; the prices an import also sets are left out.
InitialInventory ==
  [shown |-> FALSE, products |-> <<>>, previewData |-> <<>>,
   showPreview |-> FALSE, importStats |-> Absent]

ProductNames == {"Dolo", "dolo", "Crocin"}

\* name.toLowerCase()
toLowerCase(name) == IF name = "Dolo" THEN "dolo"
                     ELSE IF name = "Crocin" THEN "crocin"
                     ELSE name

\* products.find(p => p.name.toLowerCase() === item.name.toLowerCase()), as
\* an index; 0 when find gives undefined
FindByName(prods, name) ==
  IF \E i \in 1..Len(prods) : toLowerCase(prods[i].name) = toLowerCase(name)
    THEN CHOOSE i \in 1..Len(prods) :
           /\ toLowerCase(prods[i].name) = toLowerCase(name)
           /\ \A j \in 1..(i - 1) : toLowerCase(prods[j].name) # toLowerCase(name)
    ELSE 0

\* typeof item.qty === 'number' ? item.qty : 0
importQty(qty) == IF qty = Blank THEN 0 ELSE qty[1]

\* the ids crypto.randomUUID() gives to created products, in order of use
NewProductIds == <<"n1", "n2", "n3", "n4", "n5", "n6", "n7", "n8">>

FreshProductId(prods) ==
  LET used(i) == \E k \in 1..Len(prods) : prods[k].id = NewProductIds[i]
  IN NewProductIds[CHOOSE i \in 1..Len(NewProductIds) :
                     ~used(i) /\ \A j \in 1..(i - 1) : used(j)]

\* One round of previewData.forEach in finalizeImport: existing is looked up
\* in the page's product list, the save goes to the store.
importItem(store, listed, item) ==
  LET existing == FindByName(listed, item.name)
      qty == importQty(item.qty)
  IN IF existing > 0
       THEN saveProduct(store, [listed[existing] EXCEPT !.stock = @ + qty])
       ELSE saveProduct(store, [id |-> FreshProductId(store), name |-> item.name,
                                stock |-> qty])

RECURSIVE importItems(_, _, _)
importItems(store, listed, items) ==
  IF items = <<>> THEN store
  ELSE importItems(importItem(store, listed, Head(items)), listed, Tail(items))

RECURSIVE totalStockAdded(_)
totalStockAdded(items) ==
  IF items = <<>> THEN 0
  ELSE importQty(Head(items).qty) + totalStockAdded(Tail(items))

InventoryOp(name) ==
  [op |-> name, billId |-> NoBillId, rejected |-> FALSE, stockBefore |-> products]

\* The Inventory page is mounted: useEffect loads the products.
OpenInventory ==
  /\ inventory' = [InitialInventory EXCEPT !.shown = TRUE, !.products = products]
  /\ lastOp' = InventoryOp("openInventory")
  /\ UNCHANGED <<stores, page, calls, closedAs, billing>>

\* handleFileUpload found the rows items in the invoice.
ShowPreview(items) ==
  /\ inventory.shown
  /\ items # <<>>
  /\ inventory' = [inventory EXCEPT !.previewData = items, !.showPreview = TRUE]
  /\ lastOp' = InventoryOp("showPreview")
  /\ UNCHANGED <<stores, page, calls, closedAs, billing>>

\* handlePreviewChange(id, 'qty', parseInt(e.target.value) || '')
HandlePreviewChange(id, qty) ==
  /\ inventory.shown /\ inventory.showPreview
  /\ inventory' = [inventory EXCEPT !.previewData =
                     [k \in 1..Len(@) |-> IF @[k].id = id
                                            THEN [@[k] EXCEPT !.qty = qty]
                                            ELSE @[k]]]
  /\ lastOp' = InventoryOp("handlePreviewChange")
  /\ UNCHANGED <<stores, page, calls, closedAs, billing>>

\* removePreviewItem(id)
RemovePreviewItem(id) ==
  /\ inventory.shown /\ inventory.showPreview
  /\ inventory' = [inventory EXCEPT !.previewData =
                     SelectSeq(@, LAMBDA item : item.id # id)]
  /\ lastOp' = InventoryOp("removePreviewItem")
  /\ UNCHANGED <<stores, page, calls, closedAs, billing>>

\* finalizeImport()
FinalizeImport ==
  /\ inventory.shown /\ inventory.showPreview
  /\ products' = importItems(products, inventory.products, inventory.previewData)
  /\ inventory' = [inventory EXCEPT
                     !.importStats = <<[added |-> Len(inventory.previewData),
                                        totalStock |-> totalStockAdded(inventory.previewData)]>>,
                     !.products = products',
                     !.showPreview = FALSE,
                     !.previewData = <<>>]
  /\ lastOp' = [InventoryOp("finalizeImport") EXCEPT
                  !.stockBefore = <<products, inventory.previewData>>]
  /\ UNCHANGED <<bills, customers, khata, ledger, page, closedAs, billing>>

\* ------------------------------------------------------ call arguments ----
Statuses == {"PAID", "CREDIT"}

\* item ids: the two products of the store and one that was deleted from it
ItemIds == ProductIds \cup {"px"}
CartItems == [id : ItemIds, qty : Qtys]
ItemSeqs == {<<a>> : a \in CartItems} \cup {<<a, b>> : a \in CartItems, b \in CartItems}

\* A Bill as finalizeBill builds it, with the id the next randomUUID() gives.
\* cash is the cash portion of a MIXED bill.
NewBill(id, date, items, total, mode, status, customer, cash) ==
  [id |-> id, date |-> date, items |-> items, grandTotal |-> total,
   paymentMode |-> mode, customerId |-> customer.id,
   cashAmount |-> IF mode = "MIXED" THEN <<cash>> ELSE Absent,
   upiAmount |-> IF mode = "MIXED" THEN <<total - cash>> ELSE Absent,
   status |-> status]

\* ------------------------------------------------- the store, by itself ----
InitialProducts == <<[id |-> "p1", stock |-> 2], [id |-> "p2", stock |-> 2]>>

Init ==
  /\ products = InitialProducts
  /\ bills = <<>>
  /\ customers = <<>>
  /\ khata = <<>>
  /\ ledger = <<>>
  /\ page = [s \in Sessions |-> InitialPage]
  /\ lastOp = NoOp
  /\ calls = 0
  /\ closedAs = [d \in Dates |-> NoEntry]
  /\ billing = InitialBilling
  /\ inventory = InitialInventory

\* The sales of Spec: one cart, paid in cash or on credit, every pairing of
\* paymentMode and status, with or without a customer.
OneCart1 == <<[id |-> "p2", qty |-> 2], [id |-> "p1", qty |-> 1]>>
OneCart == {OneCart1}
CreditModes == {"CASH", "CREDIT"}

DoSaveBill ==
  /\ UNCHANGED <<page, closedAs, billing, inventory>>
  /\ calls < MaxCalls
  /\ calls' = calls + 1
  /\ \E items \in OneCart, total \in Amounts, mode \in CreditModes,
        status \in Statuses, customer \in Customers \cup {NoCustomer} :
       SaveBill(NewBill(FreshBillId, 1, items, total, mode, status, customer, 0),
                customer)

DoCancelBill ==
  /\ UNCHANGED <<page, closedAs, billing, inventory>>
  /\ calls < MaxCalls
  /\ calls' = calls + 1
  /\ \E billId \in KnownBillIds : CancelBill(billId)

DoAddKhataPayment ==
  /\ UNCHANGED <<page, closedAs, billing, inventory>>
  /\ calls < MaxCalls
  /\ calls' = calls + 1
  /\ \E cid \in CustomerIds, amount \in Amounts : AddKhataPayment(cid, amount, 1)

DoAddManualKhataDebit ==
  /\ UNCHANGED <<page, closedAs, billing, inventory>>
  /\ calls < MaxCalls
  /\ calls' = calls + 1
  /\ \E c \in Customers, amount \in Amounts : AddManualKhataDebit(c, amount, 1)

Next ==
  \/ DoSaveBill
  \/ DoCancelBill
  \/ DoAddKhataPayment
  \/ DoAddManualKhataDebit

Spec == Init /\ [][Next]_vars

\* --------------------------------------------- sales and stock, by itself ----
InitStock ==
  /\ products \in {<<[id |-> "p1", stock |-> s1], [id |-> "p2", stock |-> s2]>> :
                     s1 \in StockValues, s2 \in StockValues}
  /\ bills = <<>>
  /\ customers = <<>>
  /\ khata = <<>>
  /\ ledger = <<>>
  /\ page = [s \in Sessions |-> InitialPage]
  /\ lastOp = NoOp
  /\ calls = 0
  /\ closedAs = [d \in Dates |-> NoEntry]
  /\ billing = InitialBilling
  /\ inventory = InitialInventory

\* The sales of SpecStock: every cart of one or two lines, paid in cash, or on
\* credit without a customer.
SellCart ==
  /\ UNCHANGED <<page, closedAs, billing, inventory>>
  /\ calls < MaxStockCalls
  /\ calls' = calls + 1
  /\ \E items \in ItemSeqs, mode \in CreditModes :
       SaveBill(NewBill(FreshBillId, 1, items, 1, mode,
                        IF mode = "CREDIT" THEN "CREDIT" ELSE "PAID", NoCustomer, 0),
                NoCustomer)

CancelSale ==
  /\ UNCHANGED <<page, closedAs, billing, inventory>>
  /\ calls < MaxStockCalls
  /\ calls' = calls + 1
  /\ \E billId \in KnownBillIds : CancelBill(billId)

NextStock == SellCart \/ CancelSale

SpecStock == InitStock /\ [][NextStock]_vars

\* ------------------------------------------- the ledger page, by itself ----
\* One session closes days in any order of dates; no sale is recorded.
CashInputs == {Blank, <<1>>, <<2>>}

LedgerOpen == \E d \in Dates : OpenLedger(1, d)

LedgerSelectDate == \E d \in Dates : SelectDate(1, d)

LedgerInput ==
  \E field \in {"actualCash", "bankDeposit"}, value \in CashInputs :
    HandleInputChange(1, field, value)

LedgerCloseDay == HandleCloseDay(1)

NextLedger == LedgerOpen \/ LedgerSelectDate \/ LedgerInput \/ LedgerCloseDay

SpecLedger == Init /\ [][NextLedger]_vars

\* --------------------------------------- one day, two sessions, and sales ----
\* Two browser sessions share the store; both look at the same date while
\* sales of that date are recorded and cancelled and payments come in.
TheDay == 1

DayOpen == \E s \in Sessions : OpenLedger(s, TheDay)

DayInput ==
  \E s \in Sessions, value \in {<<1>>, <<2>>} :
    HandleInputChange(s, "actualCash", value)

DayCloseDay == \E s \in Sessions : HandleCloseDay(s)

DaySaveBill ==
  /\ Len(bills) < MaxDayBills
  /\ UNCHANGED <<page, calls, closedAs, billing, inventory>>
  /\ \E mode \in PaymentModes, cash \in {0, 1} :
       SaveBill(NewBill(FreshBillId, TheDay, OneCart1, 2, mode,
                        IF mode = "CREDIT" THEN "CREDIT" ELSE "PAID",
                        Customer("c1"), cash),
                Customer("c1"))

DayCancelBill ==
  /\ UNCHANGED <<page, calls, closedAs, billing, inventory>>
  /\ \E billId \in KnownBillIds : CancelBill(billId)

DayAddKhataPayment ==
  /\ Len(khata) <= MaxDayKhata
  /\ UNCHANGED <<page, calls, closedAs, billing, inventory>>
  /\ AddKhataPayment("c1", 1, TheDay)

NextDay ==
  \/ DayOpen
  \/ DayInput
  \/ DayCloseDay
  \/ DaySaveBill
  \/ DayCancelBill
  \/ DayAddKhataPayment

SpecDay == Init /\ [][NextDay]_vars

\* ------------------------------------- the form, in Auto and in Manual ----
\* One session fills in the form of one date in either mode, with every
\* field it can edit, while a sale of that date is recorded.
FormFields ==
  {"openingBalance", "grossSales", "onlineSales", "creditSales", "expenses",
   "actualCash", "bankDeposit"}

FormOpen == OpenLedger(1, TheDay)

FormModeSwitch == \E mode \in {"auto", "manual"} : HandleModeSwitch(1, mode)

FormInput ==
  \E field \in FormFields, value \in CashInputs : HandleInputChange(1, field, value)

FormCloseDay == HandleCloseDay(1)

FormSaveBill ==
  /\ Len(bills) < MaxDayBills
  /\ UNCHANGED <<page, calls, closedAs, billing, inventory>>
  /\ \E mode \in PaymentModes :
       SaveBill(NewBill(FreshBillId, TheDay, OneCart1, 2, mode,
                        IF mode = "CREDIT" THEN "CREDIT" ELSE "PAID",
                        Customer("c1"), 1),
                Customer("c1"))

NextForm == FormOpen \/ FormModeSwitch \/ FormInput \/ FormCloseDay \/ FormSaveBill

SpecForm == Init /\ [][NextForm]_vars

\* ----------------------------------------- two sessions, several dates ----
\* Two browser sessions share the store and close the days of two dates in
\* any order; a session may hold the open form of a date the other closes.
TabDates == {1, 2}

TabsOpen == \E s \in Sessions, d \in TabDates : OpenLedger(s, d)

TabsSelectDate == \E s \in Sessions, d \in TabDates : SelectDate(s, d)

TabsInput ==
  \E s \in Sessions, value \in {<<1>>, <<2>>} :
    HandleInputChange(s, "actualCash", value)

TabsCloseDay == \E s \in Sessions : HandleCloseDay(s)

NextTabs == TabsOpen \/ TabsSelectDate \/ TabsInput \/ TabsCloseDay

SpecTabs == Init /\ [][NextTabs]_vars

\* --------------------------------------------- bills and the catalogue ----
\* Sales of one or two lines taken from the catalogue as it stands, their
\* cancellation, and the inventory page saving and deleting products.
InitCatalog ==
  /\ products = <<Product("p1", 2, 1), Product("p2", 2, 2)>>
  /\ bills = <<>>
  /\ customers = <<>>
  /\ khata = <<>>
  /\ ledger = <<>>
  /\ page = [s \in Sessions |-> InitialPage]
  /\ lastOp = NoOp
  /\ calls = 0
  /\ closedAs = [d \in Dates |-> NoEntry]
  /\ billing = InitialBilling
  /\ inventory = InitialInventory

CatalogCarts ==
  {<<CartLine(products[i])>> : i \in 1..Len(products)}
    \cup {<<CartLine(products[ij[1]]), CartLine(products[ij[2]])>> :
            ij \in {x \in (1..Len(products)) \X (1..Len(products)) : x[1] # x[2]}}

CatalogSell ==
  /\ UNCHANGED <<page, closedAs, billing, inventory>>
  /\ calls < MaxCatalogCalls
  /\ calls' = calls + 1
  /\ \E cart \in CatalogCarts, mode \in CreditModes :
       SaveBill(finalizeBillRecord([InitialBilling EXCEPT
                                      !.cart = cart, !.paymentMode = mode,
                                      !.selectedCustomer = Customer("c1")],
                                   FreshBillId, TheDay),
                Customer("c1"))

CatalogCancel ==
  /\ UNCHANGED <<page, closedAs, billing, inventory>>
  /\ calls < MaxCatalogCalls
  /\ calls' = calls + 1
  /\ \E billId \in KnownBillIds : CancelBill(billId)

CatalogSaveProduct ==
  /\ UNCHANGED <<page, closedAs, billing, inventory>>
  /\ calls < MaxCatalogCalls
  /\ calls' = calls + 1
  /\ \E id \in ProductIds, stock \in {0, 2}, price \in Amounts :
       SaveProduct(Product(id, stock, price))

CatalogDeleteProduct ==
  /\ UNCHANGED <<page, closedAs, billing, inventory>>
  /\ calls < MaxCatalogCalls
  /\ calls' = calls + 1
  /\ \E id \in ProductIds : DeleteProduct(id)

NextCatalog ==
  CatalogSell \/ CatalogCancel \/ CatalogSaveProduct \/ CatalogDeleteProduct

SpecCatalog == InitCatalog /\ [][NextCatalog]_vars

\* ------------------------------------------------- the billing page ----
\* One billing page sells the one product of the catalogue; its bills are
\* cancelled from the sales list.
InitBilling ==
  /\ products = <<Product("p1", 2, 2)>>
  /\ bills = <<>>
  /\ customers = <<>>
  /\ khata = <<>>
  /\ ledger = <<>>
  /\ page = [s \in Sessions |-> InitialPage]
  /\ lastOp = NoOp
  /\ calls = 0
  /\ closedAs = [d \in Dates |-> NoEntry]
  /\ billing = InitialBilling
  /\ inventory = InitialInventory

\* What is typed into Cash Received.
CashTyped == {Blank, <<0 - 1>>, <<1>>, <<9>>}

QtyInCart(id) ==
  IF \E k \in 1..Len(billing.cart) : billing.cart[k].id = id
    THEN billing.cart[CHOOSE k \in 1..Len(billing.cart) : billing.cart[k].id = id].qty
    ELSE 0

BillingOpen == OpenBilling

BillingLeave == LeaveBilling

BillingAddToCart ==
  \E k \in 1..Len(billing.products) :
    /\ QtyInCart(billing.products[k].id) < MaxCartQty
    /\ AddToCart(billing.products[k])

BillingUpdateQty == \E id \in ProductIds, delta \in {0 - 1, 1} : UpdateQty(id, delta)

BillingRemoveItem == \E id \in ProductIds : RemoveItem(id)

BillingSetPaymentMode == \E mode \in PaymentModes : SetPaymentMode(mode)

BillingSetCashAmount == \E value \in CashTyped : SetCashAmount(value)

BillingSetSelectedCustomer ==
  \E customer \in {Customer("c1"), NoCustomer} : SetSelectedCustomer(customer)

BillingCheckout == HandleCheckout

BillingDismiss == DismissConfirmation

BillingFinalize ==
  /\ Len(bills) < MaxBillingBills
  /\ FinalizeBill(TheDay)

BillingCancelBill ==
  /\ UNCHANGED <<page, calls, closedAs, billing, inventory>>
  /\ \E billId \in KnownBillIds : CancelBill(billId)

NextBilling ==
  \/ BillingOpen
  \/ BillingLeave
  \/ BillingAddToCart
  \/ BillingUpdateQty
  \/ BillingRemoveItem
  \/ BillingSetPaymentMode
  \/ BillingSetCashAmount
  \/ BillingSetSelectedCustomer
  \/ BillingCheckout
  \/ BillingDismiss
  \/ BillingFinalize
  \/ BillingCancelBill

SpecBilling == InitBilling /\ [][NextBilling]_vars

\* ------------------------------------------- sales of two days, by mode ----
\* Bills of every payment mode are recorded on two dates and cancelled.
SaleDates == {1, 2}

SalesSaveBill ==
  /\ UNCHANGED <<page, closedAs, billing, inventory>>
  /\ calls < MaxSalesCalls
  /\ calls' = calls + 1
  /\ \E date \in SaleDates, mode \in PaymentModes, total \in Amounts, cash \in {0, 1} :
       SaveBill(NewBill(FreshBillId, date, OneCart1, total, mode,
                        IF mode = "CREDIT" THEN "CREDIT" ELSE "PAID",
                        Customer("c1"), cash),
                Customer("c1"))

SalesCancelBill ==
  /\ UNCHANGED <<page, closedAs, billing, inventory>>
  /\ calls < MaxSalesCalls
  /\ calls' = calls + 1
  /\ \E billId \in KnownBillIds : CancelBill(billId)

NextSales == SalesSaveBill \/ SalesCancelBill

SpecSales == Init /\ [][NextSales]_vars

\* ---------------------------------------------------- the khata page ----
\* Credits are added by hand, payments are received and credit sales are
\* recorded, with whatever the amount inputs hold.
AmountTyped == {Blank, <<0 - 1>>, <<0>>, <<2>>}

KhataAddManualCredit ==
  /\ UNCHANGED <<page, closedAs, billing, inventory>>
  /\ calls < MaxKhataCalls
  /\ calls' = calls + 1
  /\ \E customer \in Customers, amount \in AmountTyped :
       HandleAddManualCredit(customer, amount, TheDay)

KhataReceivePayment ==
  /\ UNCHANGED <<page, closedAs, billing, inventory>>
  /\ calls < MaxKhataCalls
  /\ calls' = calls + 1
  /\ \E k \in 1..Len(customers), payAmount \in AmountTyped :
       HandleReceivePayment(customers[k].id, payAmount, TheDay)

KhataCreditSale ==
  /\ UNCHANGED <<page, closedAs, billing, inventory>>
  /\ calls < MaxKhataCalls
  /\ calls' = calls + 1
  /\ \E customer \in Customers, total \in Amounts :
       SaveBill(NewBill(FreshBillId, TheDay, OneCart1, total, "CREDIT", "CREDIT",
                        customer, 0),
                customer)

NextKhata == KhataAddManualCredit \/ KhataReceivePayment \/ KhataCreditSale

SpecKhata == Init /\ [][NextKhata]_vars

\* ------------------------------------------------ the totals of a cart ----
\* The billing page fills a cart from a catalogue of two products, the first
\* priced with its GST included, at every pairing of rates.
InitTax ==
  /\ products \in {<<TaxedProduct("p1", 2, 118, r1, TRUE),
                      TaxedProduct("p2", 2, 59, r2, inc)>> :
                     r1 \in GstSlabs, r2 \in GstSlabs, inc \in BOOLEAN}
  /\ bills = <<>>
  /\ customers = <<>>
  /\ khata = <<>>
  /\ ledger = <<>>
  /\ page = [s \in Sessions |-> InitialPage]
  /\ lastOp = NoOp
  /\ calls = 0
  /\ closedAs = [d \in Dates |-> NoEntry]
  /\ billing = InitialBilling
  /\ inventory = InitialInventory

TaxOpen == OpenBilling

TaxAddToCart ==
  \E k \in 1..Len(billing.products) :
    /\ QtyInCart(billing.products[k].id) < MaxTaxQty
    /\ AddToCart(billing.products[k])

TaxUpdateQty == \E id \in ProductIds, delta \in {0 - 1, 1} : UpdateQty(id, delta)

TaxRemoveItem == \E id \in ProductIds : RemoveItem(id)

NextTax == TaxOpen \/ TaxAddToCart \/ TaxUpdateQty \/ TaxRemoveItem

SpecTax == InitTax /\ [][NextTax]_vars

\* ------------------------------------------ the store when storage fails ----
\* Sales, cancellations and payments during each of which at most one read
\* or write of localStorage fails.
Faults == ReadPoints \cup WritePoints \cup {NoFault}

FaultySaveBill ==
  /\ UNCHANGED <<page, closedAs, billing, inventory>>
  /\ calls < MaxFaultCalls
  /\ calls' = calls + 1
  /\ \E mode \in CreditModes, fault \in Faults :
       SaveBillWithFault(NewBill(FreshBillId, TheDay, OneCart1, 2, mode,
                                 IF mode = "CREDIT" THEN "CREDIT" ELSE "PAID",
                                 Customer("c1"), 0),
                         Customer("c1"), fault)

FaultyCancelBill ==
  /\ UNCHANGED <<page, closedAs, billing, inventory>>
  /\ calls < MaxFaultCalls
  /\ calls' = calls + 1
  /\ \E billId \in KnownBillIds, fault \in Faults \ {"readCustomers", "writeCustomers"} :
       CancelBillWithFault(billId, fault)

FaultyAddKhataPayment ==
  /\ UNCHANGED <<page, closedAs, billing, inventory>>
  /\ calls < MaxFaultCalls
  /\ calls' = calls + 1
  /\ \E fault \in {NoFault, "readKhata", "writeKhata"} :
       AddKhataPaymentWithFault("c1", 1, TheDay, fault)

NextFaults == FaultySaveBill \/ FaultyCancelBill \/ FaultyAddKhataPayment

SpecFaults == Init /\ [][NextFaults]_vars

\* --------------------------------------------- the store when a sale stops ----
\* Sales that run to the end, sales that stop between two writes, and
\* cancellations; a sale is in cash, or on credit to customer c1.
StopCarts == {<<[id |-> "p1", qty |-> 1]>>, OneCart1}

StopSale(items, customer) ==
  NewBill(FreshBillId, TheDay, items, 2,
          IF customer = NoCustomer THEN "CASH" ELSE "CREDIT",
          IF customer = NoCustomer THEN "PAID" ELSE "CREDIT", customer, 0)

StopSaveBill ==
  /\ UNCHANGED <<page, closedAs, billing, inventory>>
  /\ calls < MaxStopCalls
  /\ calls' = calls + 1
  /\ \E items \in StopCarts, customer \in {NoCustomer, Customer("c1")} :
       SaveBill(StopSale(items, customer), customer)

StopSaveBillStopped ==
  /\ UNCHANGED <<page, closedAs, billing, inventory>>
  /\ calls < MaxStopCalls
  /\ calls' = calls + 1
  /\ \E items \in StopCarts, customer \in {NoCustomer, Customer("c1")},
        stop \in StopPoints :
       SaveBillStopped(StopSale(items, customer), customer, stop)

StopCancelBill ==
  /\ UNCHANGED <<page, closedAs, billing, inventory>>
  /\ calls < MaxStopCalls
  /\ calls' = calls + 1
  /\ \E billId \in KnownBillIds : CancelBill(billId)

NextStopped == StopSaveBill \/ StopSaveBillStopped \/ StopCancelBill

SpecStopped == Init /\ [][NextStopped]_vars

\* ------------------------------------------------ the inventory page ----
\* One Inventory page imports invoices of one or two rows into a catalogue
\* that starts with Dolo alone.
InitImport ==
  /\ products = <<[id |-> "p1", name |-> "Dolo", stock |-> 1]>>
  /\ bills = <<>>
  /\ customers = <<>>
  /\ khata = <<>>
  /\ ledger = <<>>
  /\ page = [s \in Sessions |-> InitialPage]
  /\ lastOp = NoOp
  /\ calls = 0
  /\ closedAs = [d \in Dates |-> NoEntry]
  /\ billing = InitialBilling
  /\ inventory = InitialInventory

PreviewQtys == {<<1>>, <<2>>}

\* the previews handleFileUpload can show: row k has the temporary id <<k>>
Previews ==
  UNION {{[k \in 1..n |-> [id |-> <<k>>, name |-> names[k], qty |-> qtys[k]]] :
            names \in [1..n -> ProductNames], qtys \in [1..n -> PreviewQtys]} :
         n \in 1..MaxPreviewRows}

ImportOpen ==
  /\ ~inventory.shown
  /\ OpenInventory

ImportShowPreview ==
  /\ ~inventory.showPreview
  /\ \E items \in Previews : ShowPreview(items)

ImportPreviewChange ==
  \E k \in 1..MaxPreviewRows, qty \in PreviewQtys \cup {Blank} :
    HandlePreviewChange(<<k>>, qty)

ImportRemoveItem == \E k \in 1..MaxPreviewRows : RemovePreviewItem(<<k>>)

ImportFinalize ==
  /\ calls < MaxImports
  /\ calls' = calls + 1
  /\ FinalizeImport

NextImport ==
  \/ ImportOpen
  \/ ImportShowPreview
  \/ ImportPreviewChange
  \/ ImportRemoveItem
  \/ ImportFinalize

SpecImport == InitImport /\ [][NextImport]_vars

\* ------------------------------------------------------------ claims ----
BillStored(id) == \E i \in 1..Len(bills) : bills[i].id = id
BillCancelled(id) ==
  \E i \in 1..Len(bills) : bills[i].id = id /\ bills[i].status = "CANCELLED"
AllBillIds == {<<n>> : n \in 1..(MaxCalls + 1)}

\* C1: a credit sale without a customer is rejected before any store
\* mutation: the rejected saveBill leaves bills, products, customers and
\* khata exactly as they were.
C1_RejectedSaleChangesNothing ==
  [][(lastOp'.op = "saveBill" /\ lastOp'.rejected)
       => UNCHANGED <<bills, products, customers, khata>>]_vars

\* C2: cancelBill of an absent bill id, or of a bill already CANCELLED,
\* changes none of bills, products, customers, khata and ledger.
C2_CancelAbsentOrCancelledIsNoOp ==
  [][\A id \in AllBillIds :
       (lastOp'.op = "cancelBill" /\ lastOp'.billId = id
          /\ (~BillStored(id) \/ BillCancelled(id)))
       => UNCHANGED stores]_vars

\* a second cancelBill of a bill whose lines are in the store has just run
\* and moved no stock
C2_SecondCancelHappened ==
  /\ lastOp.op = "cancelBill"
  /\ BillCancelled(lastOp.billId)
  /\ lastOp.stockBefore = products
  /\ calls = 3

\* C3: saveBill(bill) directly followed by cancelBill(bill.id) returns the
\* stock of every product to its value before the sale.
C3_SaveThenCancelRestoresStock ==
  [][(lastOp.op = "saveBill" /\ lastOp'.op = "cancelBill"
        /\ lastOp'.billId = lastOp.billId)
       => products' = lastOp.stockBefore]_vars

\* a two-line sale of stored products was recorded and then cancelled
C3_SaleCancelled ==
  /\ lastOp.op = "cancelBill"
  /\ calls = 2
  /\ \E i \in 1..Len(bills) :
       /\ bills[i].id = lastOp.billId
       /\ bills[i].status = "CANCELLED"
       /\ Len(bills[i].items) = 2
       /\ bills[i].items[2].id \in ProductIds
  /\ lastOp.stockBefore # products

\* C4: every stored bill with paymentMode CREDIT that is not CANCELLED has
\* exactly one khata entry with its billId, and that entry is a DEBIT of the
\* bill's grandTotal against the bill's customerId.
C4_CreditBillHasOneDebit ==
  \A i \in 1..Len(bills) :
    (bills[i].paymentMode = "CREDIT" /\ bills[i].status # "CANCELLED")
    => /\ Cardinality({j \in 1..Len(khata) : khata[j].billId = bills[i].id}) = 1
       /\ \A j \in 1..Len(khata) :
            khata[j].billId = bills[i].id
            => /\ khata[j].type = "DEBIT"
               /\ khata[j].amount = bills[i].grandTotal
               /\ khata[j].customerId = bills[i].customerId

RECURSIVE SumAmounts(_)
SumAmounts(entries) ==
  IF entries = <<>> THEN 0 ELSE Head(entries).amount + SumAmounts(Tail(entries))

\* sum of the customer's DEBIT amounts minus sum of the CREDIT amounts
DebitsMinusCredits(entries, cid) ==
  SumAmounts(SelectSeq(entries, LAMBDA k : k.customerId = cid /\ k.type = "DEBIT"))
  - SumAmounts(SelectSeq(entries, LAMBDA k : k.customerId = cid /\ k.type = "CREDIT"))

C6_BalanceIdentity ==
  \A cid \in CustomerIds :
    ((\E i \in 1..Len(customers) : customers[i].id = cid)
       \/ (\E j \in 1..Len(khata) : khata[j].customerId = cid))
    => calculateBalances(khata, customers)[cid] = <<DebitsMinusCredits(khata, cid)>>

\* a customer has a sale debit, a payment and a manual debit on the books
C6_MixedEntries ==
  \E cid \in CustomerIds :
    /\ \E j \in 1..Len(khata) :
         khata[j].customerId = cid /\ khata[j].type = "CREDIT"
    /\ \E j \in 1..Len(khata) :
         khata[j].customerId = cid /\ khata[j].type = "DEBIT" /\ khata[j].billId # NoBillId
    /\ \E j \in 1..Len(khata) :
         khata[j].customerId = cid /\ khata[j].type = "DEBIT" /\ khata[j].billId = NoBillId
    /\ calculateBalances(khata, customers)[cid] # <<0>>

RowStored(d) == \E i \in 1..Len(ledger) : ledger[i].date = d

\* C7: once a day is closed, getLedgerEntry of that date returns the row
\* exactly as handleCloseDay persisted it, whatever bills are recorded or
\* cancelled for the date and whatever khata entries are added afterwards.
C7_ClosedDayReadsAsStored ==
  \A d \in Dates :
    closedAs[d] # NoEntry => getLedgerEntry(ledger, d) = closedAs[d][1]

\* the day is closed, its sales figures have moved since, and a payment came in
C7_SalesMovedAfterClose ==
  /\ closedAs[TheDay] # NoEntry
  /\ calculateDailyStats(bills, TheDay).grossSales # closedAs[TheDay][1].grossSales
  /\ \E j \in 1..Len(khata) : khata[j].type = "CREDIT"
  /\ lastOp.op \in {"saveBill", "cancelBill", "addKhataPayment"}

\* C8: once a row with isClosed = true is stored for a date, no later
\* operation changes any field of it or makes it unclosed.
C8_ClosedRowNeverChanges ==
  [][\A i \in 1..Len(ledger) :
       ledger[i].isClosed => \E j \in 1..Len(ledger') : ledger'[j] = ledger[i]]_vars

\* C9: for a date with no stored row, getLedgerEntry gives as openingBalance
\* the closingBalance of the stored row with the greatest earlier date, and 0
\* when no stored row is earlier.
C9_OpeningIsLatestEarlierClosing ==
  \A d \in Dates :
    ~RowStored(d) =>
      LET earlier == {i \in 1..Len(ledger) : ledger[i].date < d}
          latest == CHOOSE i \in earlier :
                      \A j \in earlier : ledger[j].date <= ledger[i].date
      IN getLedgerEntry(ledger, d).openingBalance =
           IF earlier = {} THEN 0 ELSE ledger[latest].closingBalance

\* two earlier days are stored, oldest first, with different closing balances
C9_TwoEarlierRows ==
  /\ Len(ledger) = 2
  /\ ledger[1].date < ledger[2].date
  /\ \A i \in 1..2 : ledger[i].date < 3
  /\ ledger[1].closingBalance # ledger[2].closingBalance
  /\ getLedgerEntry(ledger, 3).openingBalance # 0

\* C10: after closes made in Auto mode, in any order of dates, of every two
\* stored rows adjacent in date order the later one's openingBalance is the
\* earlier one's closingBalance.
C10_AdjacentRowsChain ==
  (\A i \in 1..Len(ledger) : ledger[i].isAutoMode)
  => \A i, j \in 1..Len(ledger) :
       (/\ ledger[i].date < ledger[j].date
        /\ ~\E k \in 1..Len(ledger) :
              ledger[i].date < ledger[k].date /\ ledger[k].date < ledger[j].date)
       => ledger[j].openingBalance = ledger[i].closingBalance

\* C11: every stored closed row satisfies expectedCash = openingBalance +
\* grossSales - (onlineSales + creditSales + expenses), difference =
\* actualCash - expectedCash and closingBalance = actualCash -
\* depositedToBank, and a close stores the numbers the form holds at that
\* moment, typed in or computed.
RowIdentities(r) ==
  /\ r.expectedCash
       = (r.openingBalance + r.grossSales)
         - (r.onlineSales + r.creditSales + r.expenses)
  /\ r.difference = r.actualCash - r.expectedCash
  /\ r.closingBalance = r.actualCash - r.depositedToBank

RowTakesForm(r, inputs) ==
  /\ r.openingBalance = parseNum(inputs.openingBalance)
  /\ r.grossSales = parseNum(inputs.grossSales)
  /\ r.onlineSales = parseNum(inputs.onlineSales)
  /\ r.creditSales = parseNum(inputs.creditSales)
  /\ r.expenses = parseNum(inputs.expenses)
  /\ r.actualCash = parseNum(inputs.actualCash)
  /\ r.depositedToBank = parseNum(inputs.bankDeposit)

C12_OverDepositIsRejected ==
  [][(/\ lastOp'.op = "handleCloseDay"
      /\ parseNum(page[1].inputs.bankDeposit) > parseNum(page[1].inputs.actualCash))
     => (/\ ledger' = ledger
         /\ IndexOfDate(ledger', page[1].selectedDate) = 0)]_vars

C12_OverDepositTried ==
  /\ lastOp.op = "handleCloseDay"
  /\ FormShown(page[1])
  /\ parseNum(page[1].inputs.bankDeposit) > parseNum(page[1].inputs.actualCash)
  /\ Len(ledger) > 0

\* C13: the stored ledger holds at most one row per date, and a close of a
\* date leaves exactly one row of that date and the rows of every other date
\* as they were.
RowsOfOtherDates(ldg, d) == SelectSeq(ldg, LAMBDA l : l.date # d)

C13_OneRowPerDate ==
  /\ [](\A i, j \in 1..Len(ledger) : ledger[i].date = ledger[j].date => i = j)
  /\ [][ledger' # ledger =>
         \E d \in Dates :
           /\ RowsOfOtherDates(ledger', d) = RowsOfOtherDates(ledger, d)
           /\ Cardinality({i \in 1..Len(ledger') : ledger'[i].date = d}) = 1]_vars

C13_RowReplaced ==
  /\ Len(ledger) = 2
  /\ ledger[1].date = 2 /\ ledger[2].date = 1
  /\ ledger[1].openingBalance # 0
  /\ ledger[1].openingBalance # ledger[2].closingBalance

\* C14: the status of a stored bill changes only from PAID or CREDIT to
\* CANCELLED, and a CANCELLED bill keeps that status in every later state.
C14_StatusOnlyMovesToCancelled ==
  [][\A i \in 1..Len(bills) :
       /\ i <= Len(bills')
       /\ bills'[i].status # bills[i].status
            => /\ bills[i].status \in {"PAID", "CREDIT"}
               /\ bills'[i].status = "CANCELLED"]_vars

C14_OneCancelledOneNot ==
  /\ lastOp.op = "cancelBill"
  /\ \E i \in 1..Len(bills) : bills[i].status = "CANCELLED" /\ lastOp.billId = bills[i].id
  /\ \E i \in 1..Len(bills) : bills[i].status = "CREDIT"

\* C15: no step removes a stored bill, and no step changes any field of a
\* stored bill other than its status: its lines with the price, tax and
\* quantity they were sold at, its totals, its payment mode and its customer
\* stay as saveBill stored them, whatever is cancelled, saved or deleted
\* afterwards.
C15_StoredBillIsFrozen ==
  [][\A i \in 1..Len(bills) :
       /\ i <= Len(bills')
       /\ [bills'[i] EXCEPT !.status = bills[i].status] = bills[i]]_vars

C15_CatalogueMovedOn ==
  /\ Len(bills) > 0
  /\ Len(bills[1].items) = 2
  /\ lastOp.op \in {"saveProduct", "deleteProduct"}
  /\ \E k \in 1..2 : IndexOfId(products, bills[1].items[k].id) = 0
  /\ \E k \in 1..2 :
       LET pIndex == IndexOfId(products, bills[1].items[k].id)
       IN pIndex > 0 /\ products[pIndex].sellingPrice # bills[1].items[k].sellingPrice

\* C16: after any sequence of sales recorded through the billing page and
\* cancellations, the stock of no product is negative.
C16_StockNeverNegative ==
  \A k \in 1..Len(products) : products[k].stock >= 0

\* C17: for every date, calculateDailyStats gives as grossSales the sum of
\* grandTotal over the bills of that date that are not cancelled, as
\* onlineSales the grandTotal of the UPI ones plus the upiAmount of the MIXED
\* ones, and as creditSales the grandTotal of the CREDIT ones; a cancelled
\* bill counts for nothing in any of the three.
RECURSIVE SumNumbers(_)
SumNumbers(seq) == IF seq = <<>> THEN 0 ELSE Head(seq) + SumNumbers(Tail(seq))

CountsOn(b, date) == b.date = date /\ b.status # "CANCELLED"

GrossShare(b, date) == IF CountsOn(b, date) THEN b.grandTotal ELSE 0

OnlineShare(b, date) ==
  IF CountsOn(b, date) /\ b.paymentMode = "UPI" THEN b.grandTotal
  ELSE IF CountsOn(b, date) /\ b.paymentMode = "MIXED" THEN b.upiAmount[1]
  ELSE 0

CreditShare(b, date) ==
  IF CountsOn(b, date) /\ b.paymentMode = "CREDIT" THEN b.grandTotal ELSE 0

C17_DailyStatsAreTheSums ==
  \A date \in Dates :
    LET stats == calculateDailyStats(bills, date)
    IN /\ stats.grossSales
            = SumNumbers([k \in 1..Len(bills) |-> GrossShare(bills[k], date)])
       /\ stats.onlineSales
            = SumNumbers([k \in 1..Len(bills) |-> OnlineShare(bills[k], date)])
       /\ stats.creditSales
            = SumNumbers([k \in 1..Len(bills) |-> CreditShare(bills[k], date)])

C17_CancelledAndMixedOnOneDay ==
  /\ lastOp.op = "cancelBill"
  /\ \E k \in 1..Len(bills) :
       /\ bills[k].date = 1 /\ bills[k].status = "CANCELLED"
       /\ bills[k].id = lastOp.billId
  /\ \E k \in 1..Len(bills) :
       /\ bills[k].date = 1 /\ bills[k].status = "PAID"
       /\ bills[k].paymentMode = "MIXED" /\ bills[k].upiAmount = <<1>>
  /\ calculateDailyStats(bills, 1).grossSales = 2
  /\ calculateDailyStats(bills, 1).onlineSales = 1

\* C18: a line that names a product the store does not hold stops neither
\* saveBill nor cancelBill: the bill is recorded (or cancelled), no product
\* is added or touched for that line, and the stock of every product the
\* other lines name moves by their quantities.
QtyOf(items, id) ==
  SumNumbers([k \in 1..Len(items) |-> IF items[k].id = id THEN items[k].qty ELSE 0])

StockMovedBy(items, sign) ==
  /\ Len(products') = Len(products)
  /\ \A k \in 1..Len(products) :
       /\ products'[k].id = products[k].id
       /\ products'[k].stock = products[k].stock + sign * QtyOf(items, products[k].id)

C18_UnknownProductIsSkipped ==
  [][/\ (lastOp'.op = "saveBill" /\ ~lastOp'.rejected)
        => /\ bills' = Append(bills, bills'[Len(bills')])
           /\ bills'[Len(bills')].id = lastOp'.billId
           /\ StockMovedBy(bills'[Len(bills')].items, 0 - 1)
     /\ (lastOp'.op = "cancelBill" /\ BillStored(lastOp'.billId)
           /\ ~BillCancelled(lastOp'.billId))
        => /\ \E i \in 1..Len(bills') :
                bills'[i].id = lastOp'.billId /\ bills'[i].status = "CANCELLED"
           /\ StockMovedBy(bills[IndexOfId(bills, lastOp'.billId)].items, 1)]_vars

C18_UnknownLineSoldAndCancelled ==
  /\ lastOp.op = "cancelBill"
  /\ Len(bills) = 1 /\ bills[1].status = "CANCELLED"
  /\ Len(bills[1].items) = 2
  /\ bills[1].items[1].id = "px" /\ bills[1].items[2].id = "p1"
  /\ Len(products) = 2

\* C19: every khata entry, whether it comes from a credit sale, a payment
\* or a manual debit, has an amount greater than 0.
C19_KhataAmountsPositive ==
  \A k \in 1..Len(khata) : khata[k].amount > 0

\* C20: every bill the billing page stores with paymentMode MIXED carries a
\* cash and a UPI portion, neither negative, that add up to grandTotal (so
\* none is stored whose cash portion exceeds grandTotal), and a bill of any
\* other mode carries neither portion.
C20_MixedPortionsSplitTheTotal ==
  \A k \in 1..Len(bills) :
    IF bills[k].paymentMode = "MIXED"
      THEN /\ bills[k].cashAmount # Absent /\ bills[k].upiAmount # Absent
           /\ bills[k].cashAmount[1] + bills[k].upiAmount[1] = bills[k].grandTotal
           /\ bills[k].cashAmount[1] >= 0
           /\ bills[k].upiAmount[1] >= 0
      ELSE bills[k].cashAmount = Absent /\ bills[k].upiAmount = Absent

\* C21: for every cart line whose price includes the tax, the taxable value
\* and the tax computed for it add up to sellingPrice * qty, and a cart made
\* of such lines only, without discount, has as grandTotal the sum of
\* sellingPrice * qty over its lines (a whole number, which rounding leaves).
LinePrices(cart) == [k \in 1..Len(cart) |-> cart[k].sellingPrice * cart[k].qty]

C21_IncludedTaxSplitsThePrice ==
  LET cart == billing.cart
  IN /\ \A k \in 1..Len(cart) :
          cart[k].gstIncluded
            => lineAmounts(cart[k]).itemTaxable + lineAmounts(cart[k]).itemTax
                 = cart[k].sellingPrice * cart[k].qty * TaxUnit
     /\ (\A k \in 1..Len(cart) : cart[k].gstIncluded /\ cart[k].discount = 0)
          => calculateTotals(cart).grandTotal = SumNumbers(LinePrices(cart))

C21_PriceOf118At18 ==
  /\ Len(billing.cart) = 2
  /\ billing.cart[1].sellingPrice = 118 /\ billing.cart[1].gstPercent = 18
  /\ billing.cart[1].qty = 1
  /\ lineAmounts(billing.cart[1]) = [itemTaxable |-> 100 * TaxUnit, itemTax |-> 18 * TaxUnit]
  /\ billing.cart[2].gstIncluded /\ billing.cart[2].gstPercent = 28
  /\ billing.cart[2].qty = 2
  /\ calculateTotals(billing.cart).grandTotal = 236
  /\ calculateTotals(billing.cart).subtotal % TaxUnit # 0

\* C22: when one read or write of the store fails during saveBill,
\* cancelBill or addKhataPayment the call raises no error: the key whose
\* write failed keeps what it held, the key whose read failed is written as
\* if it had been empty, and every other key is written as without the
\* failure.
Written(stored, fault, readPoint, writePoint, emptyResult, result) ==
  IF fault = writePoint THEN stored
  ELSE IF fault = readPoint THEN emptyResult
  ELSE result

C22_FailedReadOrWriteIsAbsorbed ==
  [][/\ lastOp'.op = "saveBill"
        => LET bill == lastOp'.bill
               customer == lastOp'.customer
               fault == lastOp'.fault
           IN /\ ~lastOp'.rejected
              /\ bills' = Written(bills, fault, "readBills", "writeBills",
                                  <<bill>>, Append(bills, bill))
              /\ products' = Written(products, fault, "readProducts", "writeProducts",
                                     <<>>, SellItems(products, bill.items))
              /\ customers' = Written(customers, fault, "readCustomers",
                                      "writeCustomers", <<customer>>,
                                      SaveCustomerOp(customers, customer))
              /\ bill.paymentMode = "CREDIT"
                   => khata' = Written(khata, fault, "readKhata", "writeKhata",
                                       <<SaleDebit(bill, customer)>>,
                                       Append(khata, SaleDebit(bill, customer)))
     /\ (lastOp'.op = "cancelBill" /\ lastOp'.fault = "readBills")
        => UNCHANGED stores
     /\ (lastOp'.op = "cancelBill" /\ lastOp'.fault # "readBills"
           /\ BillStored(lastOp'.billId) /\ ~BillCancelled(lastOp'.billId))
        => LET fault == lastOp'.fault
               billIndex == IndexOfId(bills, lastOp'.billId)
           IN /\ bills' = Written(bills, fault, "readBills", "writeBills", bills,
                                  [bills EXCEPT ![billIndex].status = "CANCELLED"])
              /\ products' = Written(products, fault, "readProducts", "writeProducts",
                                     <<>>, RestoreItems(products, bills[billIndex].items))
     /\ lastOp'.op = "addKhataPayment"
        => LET payment == [billId |-> NoBillId, customerId |-> lastOp'.customerId,
                           amount |-> lastOp'.amount, type |-> "CREDIT",
                           date |-> TheDay]
           IN khata' = Written(khata, lastOp'.fault, "readKhata", "writeKhata",
                               <<payment>>, Append(khata, payment))]_vars

C22_FailedReadThenWrite ==
  /\ lastOp.op = "saveBill" /\ lastOp.fault = "readBills"
  /\ lastOp.billId = <<2>>
  /\ Len(bills) = 1 /\ bills[1].id = <<2>>
  /\ \E k \in 1..Len(products) : products[k].stock < 0

\* C23: a close in Auto mode stores as grossSales, onlineSales and
\* creditSales of the row what calculateDailyStats gives for that date over
\* the bills stored at the moment of the close.
C23_AutoCloseStoresFreshStats ==
  [][(ledger' # ledger /\ ledger'[Len(ledger')].isAutoMode)
     => LET row == ledger'[Len(ledger')]
            stats == calculateDailyStats(bills, row.date)
        IN /\ row.grossSales = stats.grossSales
           /\ row.onlineSales = stats.onlineSales
           /\ row.creditSales = stats.creditSales]_vars

\* C24: on the form of an unclosed date a switch from Manual to Auto puts
\* the auto-derived values back into the openingBalance, grossSales,
\* onlineSales and creditSales inputs, whatever was typed there, and leaves
\* expenses, actualCash, bankDeposit and notes as they are; a switch from
\* Auto to Manual changes no input.
C24_ModeSwitchResetsAutoFieldsOnly ==
  [][lastOp'.op = "handleModeSwitch"
     => LET before == page[1]
            after == page'[1]
            stats == calculateDailyStats(bills, before.selectedDate)
        IN /\ (~before.isAutoMode /\ after.isAutoMode)
                => /\ after.inputs.openingBalance
                        = formatInput(before.autoData.openingBalance)
                   /\ after.inputs.grossSales = formatInput(stats.grossSales)
                   /\ after.inputs.onlineSales = formatInput(stats.onlineSales)
                   /\ after.inputs.creditSales = formatInput(stats.creditSales)
                   /\ \A f \in AutoFields : after.inputs[f] = formatInput(after.autoData[f])
                   /\ \A f \in {"expenses", "actualCash", "bankDeposit", "notes"} :
                        after.inputs[f] = before.inputs[f]
           /\ (before.isAutoMode /\ ~after.isAutoMode)
                => after.inputs = before.inputs]_vars

C24_BackToAutoAfterEdits ==
  /\ lastOp.op = "handleModeSwitch" /\ ~lastOp.wasAuto
  /\ page[1].isAutoMode
  /\ page[1].inputs.expenses = <<1>> /\ page[1].inputs.actualCash = <<2>>
  /\ Len(bills) = 1 /\ bills[1].paymentMode = "UPI"
  /\ page[1].inputs.grossSales = <<2>> /\ page[1].inputs.onlineSales = <<2>>
  /\ page[1].inputs.openingBalance = Blank

\* C25: getLedgerEntry changes nothing in the stored ledger: the row it
\* makes up for a date without one is not stored, and the stored rows and
\* their order are the same after the call as before it.
C25_ReadLeavesLedgerAlone ==
  [][lastOp'.op \in {"openLedger", "selectDate"}
     => /\ ledger' = ledger
        /\ IndexOfDate(ledger, page'[1].selectedDate) = 0
             => /\ IndexOfDate(ledger', page'[1].selectedDate) = 0
                /\ ~page'[1].todayLedger[1].isClosed]_vars

C25_RowMadeUpFromUnsortedLedger ==
  /\ lastOp.op = "selectDate"
  /\ Len(ledger) = 2 /\ ledger[1].date = 1 /\ ledger[2].date = 2
  /\ page[1].selectedDate = 3
  /\ ~page[1].todayLedger[1].isClosed
  /\ ledger[2].closingBalance # ledger[1].closingBalance
  /\ page[1].todayLedger[1].openingBalance = ledger[2].closingBalance

\* the khata entries of one customer, in stored order
EntriesOf(entries, cid) == SelectSeq(entries, LAMBDA k : k.customerId = cid)

\* the customer's khata is the debit of credit sale id and one payment that
\* does not exceed the sale
OwesSaleLessPayment(cid, id) ==
  LET own == EntriesOf(khata, cid)
  IN /\ Len(own) = 2
     /\ \E i \in 1..Len(bills) :
          /\ bills[i].id = id /\ bills[i].status # "CANCELLED"
          /\ bills[i].paymentMode = "CREDIT" /\ bills[i].customerId = cid
          /\ \E d \in 1..2 :
               /\ own[d].type = "DEBIT" /\ own[d].billId = id
               /\ own[d].amount = bills[i].grandTotal
               /\ own[3 - d].type = "CREDIT"
               /\ own[3 - d].amount > 0
               /\ own[3 - d].amount <= bills[i].grandTotal

\* C26: when a customer's khata holds only the debit of a credit sale of A
\* and a payment P with 0 < P <= A, cancelling the bill leaves the payment
\* entry as the customer's only entry and the customer's balance at -P.
C26_PaymentOutlivesCancelledSale ==
  [][\A cid \in CustomerIds : \A id \in AllBillIds :
       (lastOp'.op = "cancelBill" /\ lastOp'.billId = id
          /\ OwesSaleLessPayment(cid, id))
       => /\ EntriesOf(khata', cid)
               = SelectSeq(EntriesOf(khata, cid), LAMBDA k : k.type = "CREDIT")
          /\ Len(EntriesOf(khata', cid)) = 1
          /\ calculateBalances(khata', customers')[cid]
               = <<0 - EntriesOf(khata', cid)[1].amount>>]_vars

\* a credit sale of 2 was cancelled after the customer had paid 1 of it
C26_PaidOneOfTwoThenCancelled ==
  /\ lastOp.op = "cancelBill"
  /\ Len(bills) = 1 /\ lastOp.billId = bills[1].id
  /\ bills[1].status = "CANCELLED" /\ bills[1].paymentMode = "CREDIT"
  /\ bills[1].grandTotal = 2
  /\ \E cid \in CustomerIds :
       /\ bills[1].customerId = cid
       /\ Len(khata) = 1 /\ khata[1].customerId = cid
       /\ khata[1].type = "CREDIT" /\ khata[1].amount = 1
       /\ calculateBalances(khata, customers)[cid] = <<-1>>

\* stock of product id, and the quantity of it on the stored bills that are
\* not CANCELLED
StockOf(prods, id) == prods[IndexOfId(prods, id)].stock
SoldQty(bs, id) ==
  SumNumbers([i \in 1..Len(bs) |->
                IF bs[i].status # "CANCELLED" THEN QtyOf(bs[i].items, id) ELSE 0])

\* C27: a saveBill that stops after the bills write and before the products
\* write leaves the bill stored and the stock as it was; no later sale or
\* cancellation takes the missing quantity off (stock plus quantity on
\* non-cancelled bills moves only when a sale stops there); cancelling that
\* bill puts every product of its lines above the stock from before the sale.
C27_StoppedSaleIsNeverRepaired ==
  [][/\ (lastOp'.op = "saveBillStopped" /\ lastOp'.stop = 1)
        => /\ Len(bills') = Len(bills) + 1
           /\ bills' = Append(bills, bills'[Len(bills')])
           /\ bills'[Len(bills')].id = lastOp'.billId
           /\ bills'[Len(bills')].status # "CANCELLED"
           /\ products' = products
           /\ customers' = customers
           /\ khata' = khata
     /\ ~(lastOp'.op = "saveBillStopped" /\ lastOp'.stop = 1)
        => \A id \in ProductIds :
             StockOf(products', id) + SoldQty(bills', id)
               = StockOf(products, id) + SoldQty(bills, id)
     /\ (lastOp.op = "saveBillStopped" /\ lastOp.stop = 1
           /\ BillStored(lastOp.billId)
           /\ lastOp'.op = "cancelBill" /\ lastOp'.billId = lastOp.billId)
        => \A id \in ProductIds :
             LET qty == QtyOf(bills[IndexOfId(bills, lastOp.billId)].items, id)
             IN /\ StockOf(products', id) = StockOf(lastOp.stockBefore, id) + qty
                /\ qty > 0 => StockOf(products', id) > StockOf(lastOp.stockBefore, id)]_vars

\* the only sale stopped after the bills write, a second one went through,
\* and the first was cancelled: p2 stands at 4, above the 2 it started with
C27_CancelledStoppedSaleOverstocks ==
  /\ lastOp.op = "cancelBill" /\ lastOp.billId = <<1>>
  /\ Len(bills) = 2
  /\ bills[1].status = "CANCELLED" /\ bills[2].status # "CANCELLED"
  /\ StockOf(products, "p1") + SoldQty(bills, "p1")
       = 2 + QtyOf(bills[1].items, "p1")
  /\ StockOf(products, "p2") = 4
  /\ QtyOf(bills[2].items, "p2") = 0
  /\ QtyOf(bills[1].items, "p2") = 2

\* C28: when products change only through saveBill and cancelBill, the
\* stock of every product is its initial stock less the quantities of the
\* line items that reference it on stored bills that are not CANCELLED.
C28_StockIsInitialLessSold ==
  /\ Len(products) = Len(InitialProducts)
  /\ \A k \in 1..Len(products) :
       /\ products[k].id = InitialProducts[k].id
       /\ products[k].stock
            = InitialProducts[k].stock - SoldQty(bills, products[k].id)

\* two sales were stored and the first was cancelled: the stock is down by
\* the second sale only
C28_OneSaleStandsOneCancelled ==
  /\ lastOp.op = "cancelBill"
  /\ Len(bills) = 2
  /\ bills[1].status = "CANCELLED" /\ bills[2].status # "CANCELLED"
  /\ StockOf(products, "p1") = 1 /\ StockOf(products, "p2") = 0

\* C29: on the billing page, after any sequence of addToCart, updateQty and
\* removeItem, every cart line has a qty of at least 1 and of at most the
\* stock captured in that line.
C29_CartQtyWithinStock ==
  \A k \in 1..Len(billing.cart) :
    /\ billing.cart[k].qty >= 1
    /\ billing.cart[k].qty <= billing.cart[k].stock

\* the stock of all products, and of the products of one name
TotalStock(prods) == SumNumbers([k \in 1..Len(prods) |-> prods[k].stock])
StockOfName(prods, name) ==
  SumNumbers([k \in 1..Len(prods) |->
                IF toLowerCase(prods[k].name) = toLowerCase(name)
                  THEN prods[k].stock ELSE 0])
QtyOfName(items, name) ==
  SumNumbers([k \in 1..Len(items) |->
                IF toLowerCase(items[k].name) = toLowerCase(name)
                  THEN importQty(items[k].qty) ELSE 0])

\* C30: finalizeImport adds the qty of every preview row to the stock held
\* under the row's name (the existing product of that name, compared without
\* case, or a new product), and the total stock of the store rises by exactly
\* the totalStock it reports, also when two rows carry the same name.
C30_ImportAddsReportedStock ==
  [][lastOp'.op = "finalizeImport"
       => /\ TotalStock(products')
               = TotalStock(products) + inventory'.importStats[1].totalStock
          /\ \A name \in ProductNames :
               StockOfName(products', name)
                 = StockOfName(products, name)
                     + QtyOfName(inventory.previewData, name)]_vars
====
